---- MODULE Spec2Model ----
(***************************************************************************)
(* A model of the CHIP-8 toolchain core: the instruction codec             *)
(* (src/src/instruction.c), the assembler's expression evaluator, label    *)
(* table, first pass and emit (src/src/assembler.c).                       *)
(*                                                                         *)
(* Characters are one-character strings, C strings are sequences of        *)
(* characters, uint16_t values are naturals below 2^16.                    *)
(***************************************************************************)
EXTENDS Integers, Sequences, FiniteSets, TLC

VARIABLES
    cphase,     \* codec driver: position in the round trip
    cq,         \* codec driver: the shift_quirks flag of the round trip
    cins,       \* codec driver: the instruction given to / produced by the codec
    cword,      \* codec driver: the opcode given to / produced by the codec
    cins2,      \* codec driver: decode(encode(cins))
    cword2,     \* codec driver: encode(decode(cword))
    ephase,     \* evaluator driver: "ready" before the call, "done" after it
    ebuild,     \* evaluator driver: the build the evaluator runs on
    ekind,      \* evaluator driver: how the expression was drawn
    etoks,      \* evaluator driver: the tokens of the expression
    eexpr,      \* evaluator driver: the expression string given to chip8asm_eval
    eres,       \* evaluator driver: what chip8asm_eval gave back
    aphase,     \* assembler driver: "lines", "emitted", "hung" or "killed"
    asuite,     \* assembler driver: where the lines are drawn from
    asm,        \* assembler driver: struct chip8asm
    abefore,    \* assembler driver: struct chip8asm before the last call
    alines,     \* assembler driver: the lines given so far
    arets,      \* assembler driver: what chip8asm_process_line returned for each
    aprog,      \* assembler driver: the program and return value of chip8asm_emit
    tphase,     \* label table driver: "calls" or "hung"
    ttab,       \* label table driver: struct ltable
    tcalls,     \* label table driver: the calls made so far, with their results
    sdriver,    \* session: who calls the assembler, "calls", "run" or "full"
    sphase,     \* session: "calls", "hung", "killed" or "overrun"
    sasm,       \* session: struct chip8asm
    sprog,      \* session: struct chip8asm_program
    scalls,     \* session: the calls made so far, each with what it left
    dphase,     \* disassembler: "file", "analysed", "failed" or "dumped"
    dfile,      \* disassembler: the bytes of the file, and the byte past them
    ddisasm,    \* disassembler: what chip8disasm_from_file returned
    ddump,      \* disassembler: the lines chip8disasm_dump wrote
    jlist,      \* list driver: the elements of a struct jpret_list
    jcalls,     \* list driver: the calls made so far, with their results
    wphase,     \* analysis: "pop" at the while, "walk" in the for, "done", "failed"
    wfile,      \* analysis: the bytes of the file, and the byte past them
    wlists,     \* analysis: jpret_list, label_list and starts
    wpc,        \* analysis: pc
    wafter,     \* analysis: after_skip
    wwalked,    \* analysis: the starts walked from so far, in order
    wtrace,     \* analysis: the instructions decoded so far, in order
    lsuite,     \* source text: the suite its lines are drawn from
    lphase,     \* source text: "lines", "emitted", "hung" or "killed"
    lasm,       \* source text: struct chip8asm
    lcalls,     \* source text: the calls made so far, each with what it left
    kphase,     \* evaluator loop: "loop", "done", "failed" or "killed"
    kexpr,      \* evaluator loop: the expression given to chip8asm_eval
    krest,      \* evaluator loop: expr, what is left to read
    kop,        \* evaluator loop: opstack[0 .. oppos - 1]
    knum,       \* evaluator loop: numstack[0 .. numpos - 1]
    kexp,       \* evaluator loop: expecting_num
    kres,       \* evaluator loop: what chip8asm_eval gave back
    ophase,     \* reordered analysis: "pop" at the while, "done"
    ofile,      \* reordered analysis: the bytes of the file, and the byte past them
    ost         \* reordered analysis: the lists, retval and what was walked

codecVars == <<cphase, cq, cins, cword, cins2, cword2>>
evalVars == <<ephase, ebuild, ekind, etoks, eexpr, eres>>
asmVars == <<aphase, asuite, asm, abefore, alines, arets, aprog>>
tableVars == <<tphase, ttab, tcalls>>
sessVars == <<sdriver, sphase, sasm, sprog, scalls>>
disVars == <<dphase, dfile, ddisasm, ddump>>
listVars == <<jlist, jcalls>>
walkVars == <<wphase, wfile, wlists, wpc, wafter, wwalked, wtrace>>
sourceVars == <<lsuite, lphase, lasm, lcalls>>
stackVars == <<kphase, kexpr, krest, kop, knum, kexp, kres>>
orderVars == <<ophase, ofile, ost>>
vars == <<codecVars, evalVars, asmVars, tableVars, sessVars, disVars, listVars, walkVars, sourceVars, stackVars, orderVars>>

\* The value of a variable that takes no part in the specification at hand.
Idle == "idle"

(***************************************************************************)
(* Instruction codec.                                                      *)
(***************************************************************************)

\* The fields of an opcode (the OPCODE2* macros); & and >> on bit fields
\* are written as division and remainder.
OPCODE2VX(opcode) == (opcode \div 256) % 16
\* OPCODE2VY with the mask and shift of OPCODE2VX.
OPCODE2VY_AsVX(opcode) == (opcode \div 256) % 16
OPCODE2VY(opcode) == (opcode \div 16) % 16
OPCODE2ADDR(opcode) == opcode % 4096
OPCODE2BYTE(opcode) == opcode % 256
OPCODE2NIBBLE(opcode) == opcode % 16

\* The *2OPCODE macros. The fields they build never overlap, so the | that
\* joins them is a sum.
VX2OPCODE(vx) == (vx % 16) * 256
\* VY2OPCODE that loses the register: the field is left zero.
VY2OPCODE_Zero(vy) == 0
VY2OPCODE(vy) == (vy % 16) * 16
ADDR2OPCODE(addr) == addr % 4096
BYTE2OPCODE(byte) == byte % 256
NIBBLE2OPCODE(nibble) == nibble % 16

\* struct chip8_instruction: op, vx, vy and the anonymous union, kept as its
\* 16 bits of storage u. opcode and addr are the whole of u; byte and nibble
\* are its low byte (little-endian layout).
UnionByte(u) == u % 256
SetUnionByte(u, b) == (u \div 256) * 256 + (b % 256)

Ins(op, vx, vy, u) == [op |-> op, vx |-> vx, vy |-> vy, u |-> u]

\* chip8_instruction_from_opcode. vx and vy are not initialised by the
\* code: j is the indeterminate value they hold unless a case assigns them.
\* ins.opcode = opcode initialises the union.
chip8_instruction_from_opcode(opcode, shift_quirks, j) ==
    LET top == opcode \div 4096
        lo4 == opcode % 16
        lo8 == opcode % 256
        inv == Ins("OP_INVALID", j, j, opcode)
        x == OPCODE2VX(opcode)
        y == OPCODE2VY(opcode)
        none(op) == Ins(op, j, j, opcode)
        addr(op) == Ins(op, j, j, OPCODE2ADDR(opcode))
        rb(op) == Ins(op, x, j, SetUnionByte(opcode, OPCODE2BYTE(opcode)))
        rr(op) == Ins(op, x, y, opcode)
        r(op) == Ins(op, x, j, opcode)
    IN  CASE top = 0 ->
               IF (opcode \div 16) % 16 = 12
               THEN Ins("OP_SCD", j, j, SetUnionByte(opcode, OPCODE2NIBBLE(opcode)))
               ELSE CASE lo8 = 224 -> none("OP_CLS")
                      [] lo8 = 238 -> none("OP_RET")
                      [] lo8 = 251 -> none("OP_SCR")
                      [] lo8 = 252 -> none("OP_SCL")
                      [] lo8 = 253 -> none("OP_EXIT")
                      [] lo8 = 254 -> none("OP_LOW")
                      [] lo8 = 255 -> none("OP_HIGH")
                      [] OTHER -> inv
          [] top = 1 -> addr("OP_JP")
          [] top = 2 -> addr("OP_CALL")
          [] top = 3 -> rb("OP_SE_BYTE")
          [] top = 4 -> rb("OP_SNE_BYTE")
          [] top = 5 -> IF lo4 = 0 THEN rr("OP_SE_REG") ELSE inv
          [] top = 6 -> rb("OP_LD_BYTE")
          [] top = 7 -> rb("OP_ADD_BYTE")
          [] top = 8 ->
               CASE lo4 = 0 -> rr("OP_LD_REG")
                 [] lo4 = 1 -> rr("OP_OR")
                 [] lo4 = 2 -> rr("OP_AND")
                 [] lo4 = 3 -> rr("OP_XOR")
                 [] lo4 = 4 -> rr("OP_ADD_REG")
                 [] lo4 = 5 -> rr("OP_SUB")
                 [] lo4 = 6 -> IF shift_quirks THEN rr("OP_SHR")
                               ELSE IF y = 0 THEN r("OP_SHR") ELSE inv
                 [] lo4 = 7 -> rr("OP_SUBN")
                 [] lo4 = 14 -> IF shift_quirks THEN rr("OP_SHL")
                                ELSE IF y = 0 THEN r("OP_SHL") ELSE inv
                 [] OTHER -> inv
          [] top = 9 -> IF lo4 = 0 THEN rr("OP_SNE_REG") ELSE inv
          [] top = 10 -> addr("OP_LD_I")
          [] top = 11 -> addr("OP_JP_V0")
          [] top = 12 -> rb("OP_RND")
          [] top = 13 -> Ins("OP_DRW", x, y, SetUnionByte(opcode, OPCODE2NIBBLE(opcode)))
          [] top = 14 ->
               CASE lo8 = 158 -> r("OP_SKP")
                 [] lo8 = 161 -> r("OP_SKNP")
                 [] OTHER -> inv
          [] top = 15 ->
               CASE lo8 = 7 -> r("OP_LD_REG_DT")
                 [] lo8 = 10 -> r("OP_LD_KEY")
                 [] lo8 = 21 -> r("OP_LD_DT_REG")
                 [] lo8 = 24 -> r("OP_LD_ST")
                 [] lo8 = 30 -> r("OP_ADD_I")
                 [] lo8 = 41 -> r("OP_LD_F")
                 [] lo8 = 48 -> r("OP_LD_HF")
                 [] lo8 = 51 -> r("OP_LD_B")
                 [] lo8 = 85 -> r("OP_LD_DEREF_I_REG")
                 [] lo8 = 101 -> r("OP_LD_REG_DEREF_I")
                 [] lo8 = 117 -> r("OP_LD_R_REG")
                 [] lo8 = 133 -> r("OP_LD_REG_R")
                 [] OTHER -> inv

\* The operations by the operand fields their encoding reads.
NoOperandOps == {"OP_CLS", "OP_RET", "OP_SCR", "OP_SCL", "OP_EXIT", "OP_LOW", "OP_HIGH"}
AddrOps == {"OP_JP", "OP_CALL", "OP_LD_I", "OP_JP_V0"}
RegByteOps == {"OP_SE_BYTE", "OP_SNE_BYTE", "OP_LD_BYTE", "OP_ADD_BYTE", "OP_RND"}
RegRegOps == {"OP_SE_REG", "OP_LD_REG", "OP_OR", "OP_AND", "OP_XOR", "OP_ADD_REG",
              "OP_SUB", "OP_SUBN", "OP_SNE_REG"}
ShiftOps == {"OP_SHR", "OP_SHL"}
RegOps == {"OP_SKP", "OP_SKNP", "OP_LD_REG_DT", "OP_LD_KEY", "OP_LD_DT_REG",
           "OP_LD_ST", "OP_ADD_I", "OP_LD_F", "OP_LD_HF", "OP_LD_B",
           "OP_LD_DEREF_I_REG", "OP_LD_REG_DEREF_I", "OP_LD_R_REG", "OP_LD_REG_R"}

\* The constant bits of each operation's opcode, as chip8_instruction_to_opcode
\* writes them.
OpBase(op) ==
    CASE op = "OP_SCD" -> 192
      [] op = "OP_CLS" -> 224
      [] op = "OP_RET" -> 238
      [] op = "OP_SCR" -> 251
      [] op = "OP_SCL" -> 252
      [] op = "OP_EXIT" -> 253
      [] op = "OP_LOW" -> 254
      [] op = "OP_HIGH" -> 255
      [] op = "OP_JP" -> 4096
      [] op = "OP_CALL" -> 8192
      [] op = "OP_SE_BYTE" -> 12288
      [] op = "OP_SNE_BYTE" -> 16384
      [] op = "OP_SE_REG" -> 20480
      [] op = "OP_LD_BYTE" -> 24576
      [] op = "OP_ADD_BYTE" -> 28672
      [] op = "OP_LD_REG" -> 32768
      [] op = "OP_OR" -> 32769
      [] op = "OP_AND" -> 32770
      [] op = "OP_XOR" -> 32771
      [] op = "OP_ADD_REG" -> 32772
      [] op = "OP_SUB" -> 32773
      [] op = "OP_SHR" -> 32774
      [] op = "OP_SUBN" -> 32775
      [] op = "OP_SHL" -> 32782
      [] op = "OP_SNE_REG" -> 36864
      [] op = "OP_LD_I" -> 40960
      [] op = "OP_JP_V0" -> 45056
      [] op = "OP_RND" -> 49152
      [] op = "OP_DRW" -> 53248
      [] op = "OP_SKP" -> 57502
      [] op = "OP_SKNP" -> 57505
      [] op = "OP_LD_REG_DT" -> 61447
      [] op = "OP_LD_KEY" -> 61450
      [] op = "OP_LD_DT_REG" -> 61461
      [] op = "OP_LD_ST" -> 61464
      [] op = "OP_ADD_I" -> 61470
      [] op = "OP_LD_F" -> 61481
      [] op = "OP_LD_HF" -> 61488
      [] op = "OP_LD_B" -> 61491
      [] op = "OP_LD_DEREF_I_REG" -> 61525
      [] op = "OP_LD_REG_DEREF_I" -> 61541
      [] op = "OP_LD_R_REG" -> 61557
      [] op = "OP_LD_REG_R" -> 61573

\* chip8_instruction_to_opcode.
chip8_instruction_to_opcode(instr, shift_quirks) ==
    LET op == instr.op IN
    CASE op = "OP_INVALID" -> instr.u
      [] op = "OP_SCD" -> OpBase(op) + NIBBLE2OPCODE(UnionByte(instr.u))
      [] op \in NoOperandOps -> OpBase(op)
      [] op \in AddrOps -> OpBase(op) + ADDR2OPCODE(instr.u)
      [] op \in RegByteOps ->
           OpBase(op) + VX2OPCODE(instr.vx) + BYTE2OPCODE(UnionByte(instr.u))
      [] op \in RegRegOps -> OpBase(op) + VX2OPCODE(instr.vx) + VY2OPCODE(instr.vy)
      [] op \in ShiftOps ->
           IF shift_quirks
           THEN OpBase(op) + VX2OPCODE(instr.vx) + VY2OPCODE(instr.vy)
           ELSE OpBase(op) + VX2OPCODE(instr.vx)
      [] op = "OP_DRW" ->
           OpBase(op) + VX2OPCODE(instr.vx) + VY2OPCODE(instr.vy)
               + NIBBLE2OPCODE(UnionByte(instr.u))
      [] op \in RegOps -> OpBase(op) + VX2OPCODE(instr.vx)
      [] OTHER -> 0

(***************************************************************************)
(* Characters and strings (ctype.h in the C locale, string.h).             *)
(***************************************************************************)

\* The printable ASCII characters in code order, from space (32) to tilde
\* (126); the double quote, the backslash and the backtick are spelled out.
Ascii ==
    <<" ", "!", "DQUOTE", "#", "$", "%", "&", "'", "(", ")", "*", "+", ",", "-", ".", "/",
      "0", "1", "2", "3", "4", "5", "6", "7", "8", "9", ":", ";", "<", "=", ">", "?",
      "@", "A", "B", "C", "D", "E", "F", "G", "H", "I", "J", "K", "L", "M", "N", "O",
      "P", "Q", "R", "S", "T", "U", "V", "W", "X", "Y", "Z", "[", "BACKSLASH", "]", "^", "_",
      "BACKTICK", "a", "b", "c", "d", "e", "f", "g", "h", "i", "j", "k", "l", "m", "n", "o",
      "p", "q", "r", "s", "t", "u", "v", "w", "x", "y", "z", "{", "|", "}", "~">>

\* A local variable: the value x, computed once, in the code F that follows.
With(x, F(_)) == F(x)

\* The code of every character of a string that lists them in code order
\* from the space.
CodesOf(chars) ==
    [c \in {chars[i] : i \in DOMAIN chars} |-> 31 + (CHOOSE i \in DOMAIN chars : chars[i] = c)]
CharCodes == CodesOf(Ascii)
Chars == DOMAIN CharCodes
CharCode(c) == CharCodes[c]

isdigit(c) == CharCode(c) \in 48..57
isupper(c) == CharCode(c) \in 65..90
islower(c) == CharCode(c) \in 97..122
isalpha(c) == isupper(c) \/ islower(c)
isalnum(c) == isalpha(c) \/ isdigit(c)
\* Of the white-space characters only the space is printable.
isspace(c) == c = " "
isidentbody(c) == isalnum(c) \/ c = "_"
isidentstart(c) == isalpha(c) \/ c = "_"

DigitChars == {c \in Chars : isdigit(c)}
IdentBodyChars == {c \in Chars : isidentbody(c)}

\* The rest of a string after its first n characters.
Drop(str, n) == SubSeq(str, n + 1, Len(str))

\* skip_spaces: the string after its leading white space.
RECURSIVE skip_spaces(_)
skip_spaces(str) ==
    IF str # <<>> /\ isspace(Head(str)) THEN skip_spaces(Tail(str)) ELSE str

\* The number of leading characters of str that belong to the class cs.
RECURSIVE SpanLen(_, _)
SpanLen(str, cs) ==
    IF str # <<>> /\ Head(str) \in cs THEN 1 + SpanLen(Tail(str), cs) ELSE 0

\* parse_ident: the identifier at the start of str (NULL is <<>>).
parse_ident(str) ==
    IF str = <<>> \/ ~isidentstart(Head(str))
    THEN [ident |-> <<>>, rest |-> str]
    ELSE LET n == 1 + SpanLen(Tail(str), IdentBodyChars)
         IN  [ident |-> SubSeq(str, 1, n), rest |-> Drop(str, n)]

(***************************************************************************)
(* Number literals. n is a uint16_t: every assignment to it reduces the    *)
(* int value of the right-hand side modulo 2^16.                           *)
(***************************************************************************)

isbindigit(c) == c \in {"0", "1", "."}
ishexdigit(c) == CharCode(c) \in (48..57) \cup (65..70) \cup (97..102)

BinDigitChars == {c \in Chars : isbindigit(c)}
HexDigitChars == {c \in Chars : ishexdigit(c)}

HexDigitValue(c) ==
    With(CharCode(c),
         LAMBDA code : IF code \in 48..57 THEN code - 48
                       ELSE IF code <= 70 THEN code - 65 + 10
                       ELSE code - 97 + 10)

\* The loops of the three parsers, folded over the digits from the left.
RECURSIVE AccumulateBin(_, _)
AccumulateBin(digits, n) ==
    IF digits = <<>> THEN n
    ELSE AccumulateBin(Tail(digits),
            IF Head(digits) = "." THEN (2 * n) % 65536
            ELSE (2 * n + CharCode(Head(digits)) - 48) % 65536)

RECURSIVE AccumulateDec(_, _)
AccumulateDec(digits, n) ==
    IF digits = <<>> THEN n
    ELSE AccumulateDec(Tail(digits), (10 * n + CharCode(Head(digits)) - 48) % 65536)

RECURSIVE AccumulateHex(_, _)
AccumulateHex(digits, n) ==
    IF digits = <<>> THEN n
    ELSE AccumulateHex(Tail(digits), (16 * n + HexDigitValue(Head(digits))) % 65536)

\* parse_num_bin, parse_num_dec, parse_num_hex: err is the return value;
\* on success num is the number and rest the string after it.
parse_num_bin(str) ==
    LET k == SpanLen(str, BinDigitChars)
    IN  IF k = 0 THEN [err |-> 1, num |-> 0, rest |-> str]
        ELSE [err |-> 0, num |-> AccumulateBin(SubSeq(str, 1, k), 0), rest |-> Drop(str, k)]

parse_num_dec(str) ==
    LET k == SpanLen(str, DigitChars)
    IN  IF k = 0 THEN [err |-> 1, num |-> 0, rest |-> str]
        ELSE [err |-> 0, num |-> AccumulateDec(SubSeq(str, 1, k), 0), rest |-> Drop(str, k)]

parse_num_hex(str) ==
    LET k == SpanLen(str, HexDigitChars)
    IN  IF k = 0 THEN [err |-> 1, num |-> 0, rest |-> str]
        ELSE [err |-> 0, num |-> AccumulateHex(SubSeq(str, 1, k), 0), rest |-> Drop(str, k)]

(***************************************************************************)
(* Label table: LTABLE_SIZE buckets, each a chain of (label, addr)         *)
(* entries. A table is a function from the indices of its non-empty        *)
(* buckets to their chains.                                                *)
(***************************************************************************)

LTABLE_SIZE == 256

\* hash_str (djb2). The hash is only ever used modulo LTABLE_SIZE, which
\* divides the width of unsigned long, so it is kept modulo LTABLE_SIZE.
RECURSIVE HashFrom(_, _)
HashFrom(str, hash) ==
    IF str = <<>> THEN hash
    ELSE HashFrom(Tail(str), (hash * 33 + CharCode(Head(str))) % LTABLE_SIZE)

hash_str(str) == HashFrom(str, 5381 % LTABLE_SIZE)

EmptyTable == [n_bucket \in {} |-> <<>>]

Bucket(tab, n_bucket) == IF n_bucket \in DOMAIN tab THEN tab[n_bucket] ELSE <<>>

\* ltable_get: found is the return value, value the address stored by the
\* first entry of the chain whose label equals key.
ltable_get(tab, key) ==
    LET chain == Bucket(tab, hash_str(key))
        hits == {i \in 1..Len(chain) : chain[i].label = key}
    IN  IF hits = {} THEN [found |-> FALSE, value |-> 0]
        ELSE [found |-> TRUE,
              value |-> chain[CHOOSE i \in hits : \A k \in hits : i <= k].addr]

(***************************************************************************)
(* Expression evaluation.                                                  *)
(***************************************************************************)

STACK_SIZE == 100

RECURSIVE BitAnd(_, _)
BitAnd(a, b) ==
    IF a = 0 \/ b = 0 THEN 0
    ELSE (a % 2) * (b % 2) + 2 * BitAnd(a \div 2, b \div 2)
BitOr(a, b) == a + b - BitAnd(a, b)
BitXor(a, b) == a + b - 2 * BitAnd(a, b)

\* a * b modulo 2^16, computed without leaving 32 bits.
MulMod16(a, b) == (a * (b % 256) + ((a * (b \div 256)) % 256) * 256) % 65536

\* The operands of a binary operator are promoted to 32-bit int. A shift by
\* 32 or more and a division by zero are undefined; what happens depends on
\* the build:
\*   "x86": the shift count is taken modulo 32, dividing by zero traps;
\*   "arm": the shift count is taken modulo 256 and a shift by 32 or more
\*          gives 0, dividing by zero gives 0.
\* The int result of << and * may exceed INT_MAX; both builds then keep its
\* low 16 bits in the uint16_t it is stored to.
Builds == {"x86", "arm"}

ShiftCount(b, build) ==
    IF build = "x86" THEN b % 32 ELSE IF b % 256 < 32 THEN b % 256 ELSE 32

ShiftRight(a, b, build) ==
    LET n == ShiftCount(b, build) IN IF n >= 16 THEN 0 ELSE a \div (2 ^ n)

ShiftLeft(a, b, build) ==
    LET n == ShiftCount(b, build) IN IF n >= 16 THEN 0 ELSE (a * (2 ^ n)) % 65536

\* precedence with + and - at the level of * / %.
precedence_AddAsMul(op) ==
    CASE op = "|" -> 1
      [] op = "^" -> 2
      [] op = "&" -> 3
      [] op \in {">", "<"} -> 4
      [] op \in {"+", "-", "*", "/", "%"} -> 6
      [] op \in {"~", "_"} -> 1000
      [] OTHER -> -1

\* precedence
precedence(op) ==
    CASE op = "|" -> 1
      [] op = "^" -> 2
      [] op = "&" -> 3
      [] op \in {">", "<"} -> 4
      [] op \in {"+", "-"} -> 5
      [] op \in {"*", "/", "%"} -> 6
      [] op \in {"~", "_"} -> 1000
      [] OTHER -> -1

\* The value a binary operator of operator_apply stores to numstack[numpos-2]
\* from a = numstack[numpos-2] and b = numstack[numpos-1].
ApplyBinary(op, a, b, build) ==
    CASE op = "&" -> BitAnd(a, b)
      [] op = "|" -> BitOr(a, b)
      [] op = "^" -> BitXor(a, b)
      [] op = ">" -> ShiftRight(a, b, build)
      [] op = "<" -> ShiftLeft(a, b, build)
      [] op = "+" -> (a + b) % 65536
      [] op = "-" -> (a - b) % 65536
      [] op = "*" -> MulMod16(a, b)
      [] op = "/" -> IF b = 0 THEN 0 ELSE a \div b
      [] op = "%" -> IF b = 0 THEN a ELSE a % b

\* Whether the binary operator kills the process instead of storing a value.
Traps(op, b, build) == op \in {"/", "%"} /\ b = 0 /\ build = "x86"

\* The value a unary operator stores to numstack[numpos-1].
ApplyUnary(op, a) ==
    CASE op = "~" -> 65535 - a
      [] op = "_" -> (65536 - a) % 65536

\* operator_apply on the number stack: err is the return value, trap tells
\* that the process was killed by the operation.
operator_apply(op, numstack, build) ==
    LET numpos == Len(numstack)
        fail == [err |-> 1, trap |-> FALSE, numstack |-> numstack]
    IN  IF op \in {"~", "_"}
        THEN IF numpos = 0 THEN fail
             ELSE [err |-> 0, trap |-> FALSE,
                   numstack |-> [numstack EXCEPT ![numpos] = ApplyUnary(op, @)]]
        ELSE IF numpos <= 1 THEN fail
        ELSE IF op \notin {"&", "|", "^", ">", "<", "+", "-", "*", "/", "%"} THEN fail
        ELSE IF Traps(op, numstack[numpos], build)
        THEN [err |-> 0, trap |-> TRUE, numstack |-> numstack]
        ELSE [err |-> 0, trap |-> FALSE,
              numstack |-> Append(SubSeq(numstack, 1, numpos - 2),
                                  ApplyBinary(op, numstack[numpos - 1], numstack[numpos],
                                              build))]

\* All but the last element of a non-empty stack.
Front(stack) == SubSeq(stack, 1, Len(stack) - 1)
Top(stack) == stack[Len(stack)]

\* The loops of chip8asm_eval that apply the operators on top of the
\* operator stack: while the top operator's precedence is greater than p
\* (mode "gt", before pushing a unary operator), greater than or equal to p
\* (mode "ge", before pushing a binary operator), or while the top is not
\* '(' (mode "paren", at a ')').
RECURSIVE ApplyWhile(_, _, _, _, _)
ApplyWhile(opstack, numstack, p, mode, build) ==
    LET again ==
            /\ opstack # <<>>
            /\ CASE mode = "gt" -> precedence(Top(opstack)) > p
                 [] mode = "ge" -> precedence(Top(opstack)) >= p
                 [] mode = "paren" -> Top(opstack) # "("
    IN  IF ~again
        THEN [err |-> 0, trap |-> FALSE, opstack |-> opstack, numstack |-> numstack]
        ELSE LET r == operator_apply(Top(opstack), numstack, build)
             IN  IF r.trap \/ r.err # 0
                 THEN [err |-> r.err, trap |-> r.trap,
                       opstack |-> Front(opstack), numstack |-> r.numstack]
                 ELSE ApplyWhile(Front(opstack), r.numstack, p, mode, build)

\* What chip8asm_eval gives its caller: ret is the return value, value what
\* it stored through the value pointer (NoValue if it stored nothing), trap
\* tells that the process was killed during the call.
NoValue == "none"
EvalFail == [ret |-> 1, value |-> NoValue, trap |-> FALSE]
EvalTrap == [ret |-> 1, value |-> NoValue, trap |-> TRUE]

\* The code after the main loop of chip8asm_eval.
RECURSIVE EvalFinish(_, _, _)
EvalFinish(opstack, numstack, build) ==
    IF opstack # <<>>
    THEN IF Top(opstack) = "(" THEN EvalFail
         ELSE LET r == operator_apply(Top(opstack), numstack, build)
              IN  IF r.trap THEN EvalTrap
                  ELSE IF r.err # 0 THEN EvalFail
                  ELSE EvalFinish(Front(opstack), r.numstack, build)
    ELSE IF Len(numstack) # 1 THEN EvalFail
    ELSE [ret |-> 0, value |-> numstack[1], trap |-> FALSE]

\* One iteration of the main loop of chip8asm_eval on a non-empty expr, up
\* to the stack checks: the new expr, stacks and expecting_num, or a failure.
EvalStep(tab, expr, opstack, numstack, expecting_num, build) ==
    LET c == Head(expr)
        fail == [err |-> 1, trap |-> FALSE]
        cont(e, o, n, x) ==
            [err |-> 0, trap |-> FALSE, expr |-> e, opstack |-> o, numstack |-> n,
             expecting_num |-> x]
        pushed(a, op, x) ==
            IF a.trap THEN [err |-> 1, trap |-> TRUE]
            ELSE IF a.err # 0 THEN fail
            ELSE cont(Tail(expr), Append(a.opstack, op), a.numstack, x)
        number(r) ==
            IF r.err # 0 THEN fail
            ELSE cont(r.rest, opstack, Append(numstack, r.num), FALSE)
    IN  IF expecting_num /\ c = "-"
        THEN pushed(ApplyWhile(opstack, numstack, precedence("_"), "gt", build),
                    "_", expecting_num)
        ELSE IF c = "#" THEN number(parse_num_hex(Tail(expr)))
        ELSE IF c = "$" THEN number(parse_num_bin(Tail(expr)))
        ELSE IF isdigit(c) THEN number(parse_num_dec(expr))
        ELSE IF isidentstart(c)
        THEN LET id == parse_ident(expr)
                 g == ltable_get(tab, id.ident)
             IN  IF ~g.found THEN fail
                 ELSE cont(id.rest, opstack, Append(numstack, g.value), FALSE)
        ELSE IF c = "(" THEN cont(Tail(expr), Append(opstack, c), numstack, TRUE)
        ELSE IF c = ")"
        THEN LET a == ApplyWhile(opstack, numstack, 0, "paren", build)
             IN  IF a.trap THEN [err |-> 1, trap |-> TRUE]
                 ELSE IF a.err # 0 THEN fail
                 ELSE IF a.opstack = <<>> THEN fail
                 ELSE cont(Tail(expr), Front(a.opstack), a.numstack, FALSE)
        ELSE IF c = "~"
        THEN IF ~expecting_num THEN fail
             ELSE pushed(ApplyWhile(opstack, numstack, precedence(c), "gt", build),
                         c, expecting_num)
        ELSE IF precedence(c) < 0 THEN fail
        ELSE pushed(ApplyWhile(opstack, numstack, precedence(c), "ge", build), c, TRUE)

\* A test of the stacks after a turn of the loop that never finds them full.
stack_overflowed_Never(opstack, numstack) == FALSE
\* if (oppos == STACK_SIZE) ... if (numpos == STACK_SIZE) ... at the end of a
\* turn of the main loop.
stack_overflowed(opstack, numstack) ==
    Len(opstack) = STACK_SIZE \/ Len(numstack) = STACK_SIZE

\* The main loop of chip8asm_eval.
RECURSIVE EvalLoop(_, _, _, _, _, _)
EvalLoop(tab, expr, opstack, numstack, expecting_num, build) ==
    IF expr = <<>> THEN EvalFinish(opstack, numstack, build)
    ELSE With(EvalStep(tab, expr, opstack, numstack, expecting_num, build),
              LAMBDA s :
                 IF s.trap THEN EvalTrap
                 ELSE IF s.err # 0 THEN EvalFail
                 ELSE IF stack_overflowed(s.opstack, s.numstack) THEN EvalFail
                 ELSE EvalLoop(tab, skip_spaces(s.expr), s.opstack, s.numstack,
                               s.expecting_num, build))

\* chip8asm_eval of the expression expr with the labels of the table tab.
chip8asm_eval(tab, expr, build) == EvalLoop(tab, expr, <<>>, <<>>, TRUE, build)

(***************************************************************************)
(* Codec round trips: the codec is a pair of pure functions, driven here   *)
(* from every instruction and from every 16-bit word.                      *)
(***************************************************************************)

Regs == 0..15
Words == 0..65535

\* Values an uninitialised register field may hold.
JunkRegs == {0, 9}

\* The real operations with every operand field in range. Fields that the
\* operation does not use are 0, as chip8asm_compile_chip8op leaves them.
RealInstructions ==
    {Ins("OP_SCD", 0, 0, n) : n \in 0..15}
    \cup {Ins(op, 0, 0, 0) : op \in NoOperandOps}
    \cup {Ins(op, 0, 0, a) : op \in AddrOps, a \in 0..4095}
    \cup {Ins(op, x, 0, b) : op \in RegByteOps, x \in Regs, b \in 0..255}
    \cup {Ins(op, x, y, 0) : op \in RegRegOps \cup ShiftOps, x \in Regs, y \in Regs}
    \cup {Ins("OP_DRW", x, y, n) : x \in Regs, y \in Regs, n \in 0..15}
    \cup {Ins(op, x, 0, 0) : op \in RegOps, x \in Regs}

\* Invalid(w) for the words that no decode rule recognises under q.
InvalidInstructions(q) ==
    {Ins("OP_INVALID", 0, 0, w) :
        w \in {v \in Words : chip8_instruction_from_opcode(v, q, 0).op = "OP_INVALID"}}

CodecIdle == cphase = Idle /\ cq = Idle /\ cins = Idle /\ cword = Idle
                /\ cins2 = Idle /\ cword2 = Idle

EvalIdle == ephase = Idle /\ ebuild = Idle /\ ekind = Idle /\ etoks = Idle
               /\ eexpr = Idle /\ eres = Idle

AsmIdle == aphase = Idle /\ asuite = Idle /\ asm = Idle /\ abefore = Idle
              /\ alines = Idle /\ arets = Idle /\ aprog = Idle

TableIdle == tphase = Idle /\ ttab = Idle /\ tcalls = Idle

SessIdle == sdriver = Idle /\ sphase = Idle /\ sasm = Idle /\ sprog = Idle
               /\ scalls = Idle

DisIdle == dphase = Idle /\ dfile = Idle /\ ddisasm = Idle /\ ddump = Idle

ListIdle == jlist = Idle /\ jcalls = Idle

WalkIdle == wphase = Idle /\ wfile = Idle /\ wlists = Idle /\ wpc = Idle
            /\ wafter = Idle /\ wwalked = Idle /\ wtrace = Idle

SourceIdle == lsuite = Idle /\ lphase = Idle /\ lasm = Idle /\ lcalls = Idle

StackIdle == kphase = Idle /\ kexpr = Idle /\ krest = Idle /\ kop = Idle
             /\ knum = Idle /\ kexp = Idle /\ kres = Idle

OrderIdle == ophase = Idle /\ ofile = Idle /\ ost = Idle

CodecInit ==
    /\ EvalIdle
    /\ AsmIdle
    /\ TableIdle
    /\ SessIdle
    /\ DisIdle
    /\ ListIdle
    /\ WalkIdle
    /\ SourceIdle
    /\ StackIdle
    /\ OrderIdle
    /\ cq \in BOOLEAN
    /\ \/ /\ cphase = "have_instruction"
          /\ cins \in RealInstructions \cup InvalidInstructions(cq)
          /\ cword = Idle
       \/ /\ cphase = "have_word"
          /\ cword \in Words
          /\ cins = Idle
    /\ cins2 = Idle
    /\ cword2 = Idle

\* One call of chip8_instruction_to_opcode: on the given instruction, or on
\* the instruction a decode produced.
CodecEncode ==
    /\ cphase \in {"have_instruction", "decoded"}
    /\ IF cphase = "have_instruction"
       THEN /\ cword' = chip8_instruction_to_opcode(cins, cq)
            /\ cphase' = "encoded"
            /\ UNCHANGED cword2
       ELSE /\ cword2' = chip8_instruction_to_opcode(cins, cq)
            /\ cphase' = "word_round_trip"
            /\ UNCHANGED cword
    /\ UNCHANGED <<cq, cins, cins2, evalVars, asmVars, tableVars, sessVars, disVars, listVars, walkVars, sourceVars, stackVars, orderVars>>

\* One call of chip8_instruction_from_opcode: on the given word, or on the
\* word an encode produced.
CodecDecode ==
    /\ cphase \in {"have_word", "encoded"}
    /\ \E j \in JunkRegs :
         IF cphase = "have_word"
         THEN /\ cins' = chip8_instruction_from_opcode(cword, cq, j)
              /\ cphase' = "decoded"
              /\ UNCHANGED cins2
         ELSE /\ cins2' = chip8_instruction_from_opcode(cword, cq, j)
              /\ cphase' = "instruction_round_trip"
              /\ UNCHANGED cins
    /\ UNCHANGED <<cq, cword, cword2, evalVars, asmVars, tableVars, sessVars, disVars, listVars, walkVars, sourceVars, stackVars, orderVars>>

CodecNext == CodecEncode \/ CodecDecode

SpecCodec == CodecInit /\ [][CodecNext]_vars

\* The operand fields that are meaningful for an operation: the fields its
\* mnemonic takes (SHR and SHL take Vy only in shift-quirks mode).
MeaningfulFields(op, q) ==
    CASE op = "OP_INVALID" -> {"opcode"}
      [] op = "OP_SCD" -> {"nibble"}
      [] op \in NoOperandOps -> {}
      [] op \in AddrOps -> {"addr"}
      [] op \in RegByteOps -> {"vx", "byte"}
      [] op \in RegRegOps -> {"vx", "vy"}
      [] op \in ShiftOps -> IF q THEN {"vx", "vy"} ELSE {"vx"}
      [] op = "OP_DRW" -> {"vx", "vy", "nibble"}
      [] op \in RegOps -> {"vx"}

FieldOf(i, f) ==
    CASE f = "vx" -> i.vx
      [] f = "vy" -> i.vy
      [] f \in {"opcode", "addr"} -> i.u
      [] f \in {"byte", "nibble"} -> UnionByte(i.u)

SameInstruction(i, k, q) ==
    /\ i.op = k.op
    /\ \A f \in MeaningfulFields(i.op, q) : FieldOf(i, f) = FieldOf(k, f)

\* C1: for both shift-quirks settings and every real instruction with
\* in-range operands, or Invalid(w) for an unrecognised word w, decoding the
\* encoding gives the same operation with the same meaningful fields.
C1_InstructionRoundTrip ==
    cphase = "instruction_round_trip" => SameInstruction(cins2, cins, cq)

\* A quirks-mode shift with a non-zero Vy has made the round trip.
C1_Witness ==
    /\ cphase = "instruction_round_trip"
    /\ cq
    /\ cins.op = "OP_SHR"
    /\ cins.vy = 3
    /\ cins2.vy = 3

\* C2: for every 16-bit word and both shift-quirks settings, encoding the
\* decoding of the word gives the word back, bit for bit.
C2_WordRoundTrip ==
    cphase = "word_round_trip" => cword2 = cword

(***************************************************************************)
(* The evaluator driven on its own: chip8asm_eval is called once on an     *)
(* expression, with a label table that defines the constant A.             *)
(***************************************************************************)

\* The longest well-formed expression, in tokens, and the longest arbitrary
\* string, in characters, that the evaluator is driven with.
MaxExprToks == 5
MaxJunkLen == 4

TokA == <<"A">>
EvalLabels == hash_str(TokA) :> <<[label |-> TokA, addr |-> 40]>>

NumberToks == {<<"2">>, <<"1", "3">>, TokA}
UnaryToks == {<<"~">>, <<"-">>}
BinaryToks == {<<"|">>, <<"^">>, <<"&">>, <<">">>, <<"<">>, <<"+">>, <<"-">>,
               <<"*">>, <<"/">>, <<"%">>}
LParen == <<"(">>
RParen == <<")">>

\* The well-formed expressions of exactly n tokens: a number, a unary
\* operator before an expression, an expression in parentheses, or two
\* expressions around a binary operator.
WellFormed[n \in 0..(MaxExprToks + 1)] ==
    IF n = 0 THEN {}
    ELSE (IF n = 1 THEN {<<t>> : t \in NumberToks} ELSE {})
         \cup {<<u>> \o e : u \in UnaryToks, e \in WellFormed[n - 1]}
         \cup (IF n >= 3 THEN {<<LParen>> \o e \o <<RParen>> : e \in WellFormed[n - 2]}
               ELSE {})
         \cup UNION {{a \o <<o>> \o b :
                         a \in WellFormed[i], b \in WellFormed[n - 1 - i], o \in BinaryToks} :
                     i \in 1..(n - 2)}

\* Literals and operators whose results leave 16 bits, a shift count of 32.
BigNumberToks == {<<"1">>, <<"3", "2">>, <<"6", "5", "5", "3", "5">>,
                  <<"6", "5", "5", "3", "7">>, <<"#", "8", "0", "0", "0">>,
                  <<"#", "1", "0", "0", "0", "2">>, <<"$", "1", ".", "1">>,
                  <<"$", "1", ".", ".", ".", ".", ".", ".", ".", ".", ".", ".", ".", ".", ".", ".", ".", "1">>}
WrappingToks == {<<"+">>, <<"-">>, <<"*">>, <<"<">>}
ArithExprs ==
    {<<a>> : a \in BigNumberToks}
    \cup {<<u, a>> : u \in UnaryToks, a \in BigNumberToks}
    \cup {<<a, o, b>> : a \in BigNumberToks, o \in WrappingToks, b \in BigNumberToks}

\* Arbitrary strings of at most MaxJunkLen characters, one token a character.
JunkChars == {"2", "+", "-", "~", "(", ")", "!", " "}
JunkExprs == UNION {[1..n -> {<<c>> : c \in JunkChars}] : n \in 0..MaxJunkLen}

\* The tokens one after the other, with the separator sep between them.
RECURSIVE Join(_, _)
Join(toks, sep) ==
    IF toks = <<>> THEN <<>>
    ELSE IF Len(toks) = 1 THEN toks[1]
    ELSE toks[1] \o sep \o Join(Tail(toks), sep)

EvalInit ==
    /\ CodecIdle
    /\ AsmIdle
    /\ TableIdle
    /\ SessIdle
    /\ DisIdle
    /\ ListIdle
    /\ WalkIdle
    /\ SourceIdle
    /\ StackIdle
    /\ OrderIdle
    /\ ephase = "ready"
    /\ ebuild \in Builds
    /\ eres = Idle
    /\ \/ /\ ekind = "wellformed"
          /\ etoks \in UNION {WellFormed[n] : n \in 1..MaxExprToks}
          /\ eexpr \in {Join(etoks, <<>>), Join(etoks, <<" ">>)}
       \/ /\ ekind = "arith"
          /\ etoks \in ArithExprs
          /\ eexpr = Join(etoks, <<" ">>)
       \/ /\ ekind = "any"
          /\ etoks \in JunkExprs
          /\ eexpr = Join(etoks, <<>>)

\* One call chip8asm_eval(chipasm, expr, line, &value).
EvalCall ==
    /\ ephase = "ready"
    /\ eres' = chip8asm_eval(EvalLabels, eexpr, ebuild)
    /\ ephase' = "done"
    /\ UNCHANGED <<ebuild, ekind, etoks, eexpr, codecVars, asmVars, tableVars, sessVars, disVars, listVars, walkVars, sourceVars, stackVars, orderVars>>

SpecEval == EvalInit /\ [][EvalCall]_vars

(***************************************************************************)
(* The expression tree of a well-formed token sequence, evaluated while    *)
(* it is built by precedence climbing: a unary operator applies to the     *)
(* primary that follows it, a binary operator of level p takes as right    *)
(* operand everything up to the next binary operator of level <= p.        *)
(***************************************************************************)

\* The mathematical value of a digit string in a base.
DigitValue(c) == IF c = "." THEN 0 ELSE HexDigitValue(c)
RECURSIVE Positional(_, _)
Positional(digits, base) ==
    IF digits = <<>> THEN 0
    ELSE base * Positional(Front(digits), base) + DigitValue(Top(digits))

RefLiteral(tok) ==
    IF tok = TokA THEN ltable_get(EvalLabels, TokA).value
    ELSE IF Head(tok) = "#" THEN Positional(Tail(tok), 16) % 65536
    ELSE IF Head(tok) = "$" THEN Positional(Tail(tok), 2) % 65536
    ELSE Positional(tok, 10) % 65536

RefLevel(tok) ==
    CASE tok = <<"|">> -> 1
      [] tok = <<"^">> -> 2
      [] tok = <<"&">> -> 3
      [] tok \in {<<">">>, <<"<">>} -> 4
      [] tok \in {<<"+">>, <<"-">>} -> 5
      [] tok \in {<<"*">>, <<"/">>, <<"%">>} -> 6

\* val is the value of the subtree, pos the position after it, div0 tells
\* that the subtree divides by zero.
RECURSIVE RefPrimary(_, _, _)
RECURSIVE RefClimb(_, _, _, _, _)
RECURSIVE RefExpr(_, _, _, _)
RefPrimary(toks, pos, build) ==
    LET t == toks[pos]
    IN  IF t = <<"~">>
        THEN LET r == RefPrimary(toks, pos + 1, build)
             IN  [r EXCEPT !.val = ApplyUnary("~", @)]
        ELSE IF t = <<"-">>
        THEN LET r == RefPrimary(toks, pos + 1, build)
             IN  [r EXCEPT !.val = ApplyUnary("_", @)]
        ELSE IF t = LParen
        THEN LET r == RefExpr(toks, pos + 1, 1, build)
             IN  [r EXCEPT !.pos = @ + 1]
        ELSE [val |-> RefLiteral(t), pos |-> pos + 1, div0 |-> FALSE]

RefClimb(toks, lhs, minlevel, pos, build) ==
    IF pos <= Len(toks) /\ toks[pos] \in BinaryToks /\ RefLevel(toks[pos]) >= minlevel
    THEN LET op == toks[pos]
             rhs == RefExpr(toks, pos + 1, RefLevel(op) + 1, build)
         IN  RefClimb(toks,
                      [val |-> ApplyBinary(op[1], lhs.val, rhs.val, build),
                       pos |-> rhs.pos,
                       div0 |-> lhs.div0 \/ rhs.div0 \/ (op[1] \in {"/", "%"} /\ rhs.val = 0)],
                      minlevel, rhs.pos, build)
    ELSE lhs

RefExpr(toks, pos, minlevel, build) ==
    RefClimb(toks, RefPrimary(toks, pos, build), minlevel,
             RefPrimary(toks, pos, build).pos, build)

RefTree(toks, build) == RefExpr(toks, 1, 1, build)

\* C8: for every well-formed expression, chip8asm_eval returns the value of
\* the expression tree built with precedence | < ^ < & < shift < add/sub <
\* mul/div/mod < unary, left-associative binary operators and
\* right-associative unary operators (a tree that divides by zero has no
\* value: the call is then killed where the build traps on it).
C8_PrecedenceAssociativity ==
    (ephase = "done" /\ ekind = "wellformed") =>
        LET t == RefTree(etoks, ebuild)
        IN  IF t.div0 /\ ebuild = "x86" THEN eres.trap
            ELSE eres = [ret |-> 0, value |-> t.val, trap |-> FALSE]

\* 2 + 13 * 2 has been evaluated to 28, and A % 13 / 2 to 0.
C8_Witness ==
    /\ ephase = "done"
    /\ ekind = "wellformed"
    /\ \/ etoks = <<<<"2">>, <<"+">>, <<"1", "3">>, <<"*">>, <<"2">>>> /\ eres.value = 28
       \/ etoks = <<TokA, <<"%">>, <<"1", "3">>, <<"/">>, <<"2">>>> /\ eres.value = 0

\* The exact mathematical result, modulo 2^16, of a literal, of a unary
\* operator on a literal, or of one of + - * << on two literals.
C9_Exact(toks) ==
    LET a == RefLiteral(toks[Len(toks) - 2 * (Len(toks) \div 3)])
        b == RefLiteral(toks[Len(toks)])
    IN  IF Len(toks) = 1 THEN b
        ELSE IF Len(toks) = 2
        THEN (IF toks[1] = <<"-">> THEN (65536 - b) % 65536 ELSE 65535 - b)
        ELSE CASE toks[2] = <<"+">> -> (a + b) % 65536
               [] toks[2] = <<"-">> -> (a - b) % 65536
               [] toks[2] = <<"*">> -> MulMod16(a, b)
               [] toks[2] = <<"<">> -> IF b >= 16 THEN 0 ELSE (a * (2 ^ b)) % 65536

\* C9: every number literal and the result of every application of + - *
\* << unary - and ~ equals the exact mathematical result reduced modulo 2^16.
C9_WrapsModulo16 ==
    (ephase = "done" /\ ekind = "arith") =>
        eres.ret = 0 /\ eres.value = C9_Exact(etoks)

\* The last character of str that is not a space before position i ("" if
\* there is none), and the first one after position i.
RECURSIVE PrevChar(_, _)
PrevChar(str, i) ==
    IF i <= 1 THEN ""
    ELSE IF str[i - 1] = " " THEN PrevChar(str, i - 1)
    ELSE str[i - 1]

RECURSIVE NextChar(_, _)
NextChar(str, i) ==
    IF i >= Len(str) THEN ""
    ELSE IF str[i + 1] = " " THEN NextChar(str, i + 1)
    ELSE str[i + 1]

RECURSIVE ParenUnmatched(_, _)
ParenUnmatched(str, depth) ==
    IF str = <<>> THEN depth > 0
    ELSE IF Head(str) = "(" THEN ParenUnmatched(Tail(str), depth + 1)
    ELSE IF Head(str) = ")" THEN depth = 0 \/ ParenUnmatched(Tail(str), depth - 1)
    ELSE ParenUnmatched(Tail(str), depth)

BinaryChars == {"|", "^", "&", ">", "<", "+", "-", "*", "/", "%"}
OperatorChars == BinaryChars \cup {"~"}
OperandChars == IdentBodyChars \cup {"#", "$", ".", "(", ")"}

EndsWithOperator(str) == PrevChar(str, Len(str) + 1) \in OperatorChars
TildeUnexpected(str) ==
    \E i \in 1..Len(str) :
        str[i] = "~" /\ PrevChar(str, i) \in (IdentBodyChars \cup {")"})
UnknownOperator(str) ==
    \E i \in 1..Len(str) : str[i] \notin (OperatorChars \cup OperandChars \cup {" "})
TooFewOperands(str) ==
    \E i \in 1..Len(str) :
        \/ str[i] \in (BinaryChars \ {"-"}) /\ PrevChar(str, i) \in (OperatorChars \cup {"", "("})
        \/ str[i] \in OperatorChars /\ NextChar(str, i) \in {"", ")"}

\* C10: chip8asm_eval returns an error and writes no value for every
\* expression that has an unmatched parenthesis, ends with an operator,
\* applies an operator to too few operands, has a ~ where no operand is
\* expected, or contains an unknown operator character.
C10_MalformedRejected ==
    (/\ ephase = "done"
     /\ ekind = "any"
     /\ \/ ParenUnmatched(eexpr, 0)
        \/ EndsWithOperator(eexpr)
        \/ TooFewOperands(eexpr)
        \/ TildeUnexpected(eexpr)
        \/ UnknownOperator(eexpr))
    => (eres.ret = 1 /\ eres.value = NoValue)

(***************************************************************************)
(* The assembler: strings, the label table's writer, the first pass        *)
(* (chip8asm_process_line) and the second pass (chip8asm_emit).            *)
(***************************************************************************)

MAX_OPERANDS == 3
CHIP8_PROG_START == 512
CHIP8_MEM_SIZE == 4096
CHIP8_PROG_SIZE == CHIP8_MEM_SIZE - CHIP8_PROG_START

\* The string literals the first pass compares its input with.
Str ==
    [ifdef |-> <<"I", "F", "D", "E", "F">>,
     ifndef |-> <<"I", "F", "N", "D", "E", "F">>,
     else_ |-> <<"E", "L", "S", "E">>, endif |-> <<"E", "N", "D", "I", "F">>,
     define |-> <<"D", "E", "F", "I", "N", "E">>, db |-> <<"D", "B">>,
     dw |-> <<"D", "W">>, option |-> <<"O", "P", "T", "I", "O", "N">>,
     jp |-> <<"J", "P">>, se |-> <<"S", "E">>, sne |-> <<"S", "N", "E">>,
     ld |-> <<"L", "D">>, add |-> <<"A", "D", "D">>, shr |-> <<"S", "H", "R">>,
     shl |-> <<"S", "H", "L">>, v0 |-> <<"V", "0">>, i |-> <<"I">>,
     dt |-> <<"D", "T">>, st |-> <<"S", "T">>, f |-> <<"F">>,
     hf |-> <<"H", "F">>, b |-> <<"B">>, r |-> <<"R">>, k |-> <<"K">>,
     deref_i |-> <<"[", "I", "]">>]

\* The operations declared with the CHIPOP macro: name, operation, operands.
CHIPOP ==
    {
     [name |-> <<"S", "C", "D">>, it |-> "OP_SCD", nops |-> 1],
     [name |-> <<"C", "L", "S">>, it |-> "OP_CLS", nops |-> 0],
     [name |-> <<"R", "E", "T">>, it |-> "OP_RET", nops |-> 0],
     [name |-> <<"S", "C", "R">>, it |-> "OP_SCR", nops |-> 0],
     [name |-> <<"S", "C", "L">>, it |-> "OP_SCL", nops |-> 0],
     [name |-> <<"E", "X", "I", "T">>, it |-> "OP_EXIT", nops |-> 0],
     [name |-> <<"L", "O", "W">>, it |-> "OP_LOW", nops |-> 0],
     [name |-> <<"H", "I", "G", "H">>, it |-> "OP_HIGH", nops |-> 0],
     [name |-> <<"C", "A", "L", "L">>, it |-> "OP_CALL", nops |-> 1],
     [name |-> <<"O", "R">>, it |-> "OP_OR", nops |-> 2],
     [name |-> <<"A", "N", "D">>, it |-> "OP_AND", nops |-> 2],
     [name |-> <<"X", "O", "R">>, it |-> "OP_XOR", nops |-> 2],
     [name |-> <<"S", "U", "B">>, it |-> "OP_SUB", nops |-> 2],
     [name |-> <<"S", "U", "B", "N">>, it |-> "OP_SUBN", nops |-> 2],
     [name |-> <<"R", "N", "D">>, it |-> "OP_RND", nops |-> 2],
     [name |-> <<"D", "R", "W">>, it |-> "OP_DRW", nops |-> 3],
     [name |-> <<"S", "K", "P">>, it |-> "OP_SKP", nops |-> 1],
     [name |-> <<"S", "K", "N", "P">>, it |-> "OP_SKNP", nops |-> 1]
    }

\* toupper that leaves every character as it is.
toupper_Same(c) == c
toupper(c) ==
    With(CharCode(c), LAMBDA code : IF code \in 97..122 THEN Ascii[code - 63] ELSE c)

\* strcasecmp: 0 if the strings are equal up to the case of their letters.
strcasecmp(a, b) ==
    IF Len(a) = Len(b) /\ \A i \in 1..Len(a) : toupper(a[i]) = toupper(b[i])
    THEN 0 ELSE 1

\* A string without its trailing white space.
RECURSIVE RTrim(_)
RTrim(str) == IF str # <<>> /\ isspace(Top(str)) THEN RTrim(Front(str)) ELSE str

\* parse_operand: the text up to the next ',' or ';' or the end of the
\* string, without its trailing white space, and the string from there.
OperandBodyChars == Chars \ {";", ","}
parse_operand(str) ==
    LET k == SpanLen(str, OperandBodyChars)
    IN  [operand |-> RTrim(SubSeq(str, 1, k)), rest |-> Drop(str, k)]

\* register_num that knows no register.
register_num_None(name) == -1
\* register_num: the number of the register called name, or -1.
register_num(name) ==
    IF Len(name) = 2 /\ name[1] \in {"V", "v"} /\ ishexdigit(name[2])
    THEN HexDigitValue(name[2])
    ELSE -1

\* ltable_add: ret is the return value (true: the label was already there),
\* tab the table afterwards; hang tells that the call never returns. With
\* one entry in the bucket the loop body is never entered and the label is
\* appended unchecked; with two, b never advances: the loop compares the
\* first entry for ever unless that entry has the label.
ltable_add(tab, label, addr) ==
    LET n_bucket == hash_str(label)
        chain == Bucket(tab, n_bucket)
        entry == [label |-> label, addr |-> addr]
        put(c) == [b \in DOMAIN tab \cup {n_bucket} |-> IF b = n_bucket THEN c ELSE tab[b]]
    IN  IF chain = <<>>
        THEN [hang |-> FALSE, ret |-> FALSE, tab |-> put(<<entry>>)]
        ELSE IF Len(chain) = 1
        THEN [hang |-> FALSE, ret |-> FALSE, tab |-> put(Append(chain, entry))]
        ELSE IF chain[1].label = label
        THEN [hang |-> FALSE, ret |-> TRUE, tab |-> put([chain EXCEPT ![1].addr = addr])]
        ELSE [hang |-> TRUE, ret |-> FALSE, tab |-> tab]

\* chip8asm_new: the assembler after construction.
chip8asm_new(shift_quirks) ==
    [shift_quirks |-> shift_quirks, labels |-> EmptyTable, instructions |-> <<>>,
     line_label |-> <<>>, line |-> 0, pc |-> CHIP8_PROG_START,
     if_level |-> 0, if_skip_else |-> 0, if_skip_endif |-> 0]

\* chip8asm_should_process with only the check of if_skip_endif.
should_process_EndifOnly(chipasm) == chipasm.if_skip_endif = 0
\* chip8asm_should_process with only the check of if_skip_else.
should_process_ElseOnly(chipasm) == chipasm.if_skip_else = 0

chip8asm_should_process(chipasm) ==
    chipasm.if_skip_else = 0 /\ chipasm.if_skip_endif = 0

\* chip8asm_add_instruction: ret is the return value.
chip8asm_add_instruction(chipasm, instr) ==
    IF chipasm.line_label # <<>>
    THEN LET r == ltable_add(chipasm.labels, chipasm.line_label, instr.pc)
         IN  IF r.hang THEN [hang |-> TRUE, ret |-> 1, asm |-> chipasm]
             ELSE IF r.ret
             THEN [hang |-> FALSE, ret |-> 1, asm |-> [chipasm EXCEPT !.labels = r.tab]]
             ELSE [hang |-> FALSE, ret |-> 0,
                   asm |-> [chipasm EXCEPT !.labels = r.tab, !.line_label = <<>>,
                                           !.instructions = Append(@, instr)]]
    ELSE [hang |-> FALSE, ret |-> 0,
          asm |-> [chipasm EXCEPT !.instructions = Append(@, instr)]]

\* The values an uninitialised chipop and operands[0] of a pending
\* instruction may hold (JP with neither one operand nor V0 and an address).
JunkInstrs ==
    {[chipop |-> "OP_CLS", operand |-> <<>>], [chipop |-> "OP_JP", operand |-> <<"0">>]}

\* The chain of mnemonic tests of chip8asm_process_instruction that follows
\* the alignment of pc: retval 1 if the mnemonic is unknown or has the wrong
\* number of operands, else the operation and operands of the instruction.
MachineInstruction(shift_quirks, op, operands, junk) ==
    LET n == Len(operands)
        is(name) == strcasecmp(op, name) = 0
        same(a, b) == strcasecmp(a, b) = 0
        made(chipop, ops) == [retval |-> 0, chipop |-> chipop, operands |-> ops]
        fail == [retval |-> 1, chipop |-> "OP_INVALID", operands |-> <<>>]
        o1 == operands[1]
        o2 == operands[2]
        isreg(o) == register_num(o) # -1
    IN  IF \E e \in CHIPOP : is(e.name)
        THEN LET e == CHOOSE e \in CHIPOP : is(e.name)
             IN  IF e.nops # n THEN fail ELSE made(e.it, operands)
        ELSE IF is(Str.jp)
        THEN IF n = 1 THEN made("OP_JP", operands)
             ELSE IF n = 2 /\ same(o1, Str.v0) THEN made("OP_JP_V0", <<o2>>)
             ELSE made(junk.chipop, <<junk.operand>>)
        ELSE IF is(Str.se)
        THEN IF n # 2 THEN fail
             ELSE made(IF isreg(o2) THEN "OP_SE_REG" ELSE "OP_SE_BYTE", operands)
        ELSE IF is(Str.sne)
        THEN IF n # 2 THEN fail
             ELSE made(IF isreg(o2) THEN "OP_SNE_REG" ELSE "OP_SNE_BYTE", operands)
        ELSE IF is(Str.ld)
        THEN IF n # 2 THEN fail
             ELSE IF same(o1, Str.i) THEN made("OP_LD_I", <<o2>>)
             ELSE IF same(o1, Str.dt) THEN made("OP_LD_DT_REG", <<o2>>)
             ELSE IF same(o1, Str.st) THEN made("OP_LD_ST", <<o2>>)
             ELSE IF same(o1, Str.f) THEN made("OP_LD_F", <<o2>>)
             ELSE IF same(o1, Str.hf) THEN made("OP_LD_HF", <<o2>>)
             ELSE IF same(o1, Str.b) THEN made("OP_LD_B", <<o2>>)
             ELSE IF same(o1, Str.deref_i) THEN made("OP_LD_DEREF_I_REG", <<o2>>)
             ELSE IF same(o1, Str.r) THEN made("OP_LD_R_REG", <<o2>>)
             ELSE IF isreg(o2) THEN made("OP_LD_REG", operands)
             ELSE IF same(o2, Str.dt) THEN made("OP_LD_REG_DT", <<o1>>)
             ELSE IF same(o2, Str.k) THEN made("OP_LD_KEY", <<o1>>)
             ELSE IF same(o2, Str.deref_i) THEN made("OP_LD_REG_DEREF_I", <<o1>>)
             ELSE IF same(o2, Str.r) THEN made("OP_LD_REG_R", <<o1>>)
             ELSE made("OP_LD_BYTE", operands)
        ELSE IF is(Str.add)
        THEN IF n # 2 THEN fail
             ELSE IF same(o1, Str.i) THEN made("OP_ADD_I", <<o2>>)
             ELSE IF isreg(o2) THEN made("OP_ADD_REG", operands)
             ELSE made("OP_ADD_BYTE", operands)
        ELSE IF is(Str.shr)
        THEN IF shift_quirks
             THEN (IF n # 2 THEN fail ELSE made("OP_SHR_QUIRK", operands))
             ELSE (IF n # 1 THEN fail ELSE made("OP_SHR", operands))
        ELSE IF is(Str.shl)
        THEN IF shift_quirks
             THEN (IF n # 2 THEN fail ELSE made("OP_SHL_QUIRK", operands))
             ELSE (IF n # 1 THEN fail ELSE made("OP_SHL", operands))
        ELSE fail

\* An ELSE or ENDIF that is never taken to be unexpected.
unexpected_Never(chipasm) == FALSE
\* chipasm->if_level == 0, the test for "unexpected ELSE" and "unexpected
\* ENDIF".
unexpected(chipasm) == chipasm.if_level = 0

\* chip8asm_process_instruction: retval is the return value, asm the
\* assembler afterwards, hang tells that the call never returns. The value
\* chip8asm_add_instruction returns is dropped by all three of its callers.
chip8asm_process_instruction(chipasm, op, operands, junk) ==
    LET n == Len(operands)
        is(name) == strcasecmp(op, name) = 0
        done(retval, a) == [hang |-> FALSE, retval |-> retval, asm |-> a]
        defined == ltable_get(chipasm.labels, operands[1]).found
        level == chipasm.if_level
        data(type, size) ==
            With(chip8asm_add_instruction(chipasm,
                         [type |-> type, chipop |-> "OP_INVALID",
                          operands |-> <<operands[1]>>, n_operands |-> 1,
                          line |-> chipasm.line, pc |-> chipasm.pc]),
                 LAMBDA r : [hang |-> r.hang, retval |-> 0,
                             asm |-> [r.asm EXCEPT !.pc = (@ + size) % 65536]])
        aligned == [chipasm EXCEPT !.pc = (((@ + 1) \div 2) * 2) % 65536]
        machine(m) ==
            IF m.retval # 0 THEN done(1, aligned)
            ELSE With(chip8asm_add_instruction([aligned EXCEPT !.pc = (@ + 2) % 65536],
                         [type |-> "IT_CHIP8_OP", chipop |-> m.chipop,
                          operands |-> m.operands,
                          n_operands |-> Len(m.operands),
                          line |-> chipasm.line, pc |-> aligned.pc]),
                      LAMBDA r : [hang |-> r.hang, retval |-> 0, asm |-> r.asm])
    IN  IF is(Str.ifdef) \/ is(Str.ifndef)
        THEN IF n # 1 THEN done(1, chipasm)
             ELSE IF chip8asm_should_process(chipasm) /\ (defined <=> is(Str.ifndef))
             THEN done(0, [chipasm EXCEPT !.if_level = level + 1,
                                          !.if_skip_else = level + 1])
             ELSE done(0, [chipasm EXCEPT !.if_level = level + 1])
        ELSE IF is(Str.else_)
        THEN IF n # 0 \/ unexpected(chipasm) THEN done(1, chipasm)
             ELSE IF level = chipasm.if_skip_else
             THEN done(0, [chipasm EXCEPT !.if_skip_else = 0])
             ELSE IF chip8asm_should_process(chipasm)
             THEN done(0, [chipasm EXCEPT !.if_skip_endif = level])
             ELSE done(0, chipasm)
        ELSE IF is(Str.endif)
        THEN IF n # 0 \/ unexpected(chipasm) THEN done(1, chipasm)
             ELSE done(0, [chipasm EXCEPT
                              !.if_skip_else = IF level = @ THEN 0 ELSE @,
                              !.if_skip_endif = IF level = @ THEN 0 ELSE @,
                              !.if_level = level - 1])
        ELSE IF ~chip8asm_should_process(chipasm) THEN done(0, chipasm)
        ELSE IF is(Str.define)
        THEN IF n # 1 THEN done(1, chipasm)
             ELSE With(ltable_add(chipasm.labels, operands[1], 0),
                       LAMBDA r : [hang |-> r.hang, retval |-> 0,
                                   asm |-> [chipasm EXCEPT !.labels = r.tab]])
        ELSE IF is(Str.db) THEN (IF n # 1 THEN done(1, chipasm) ELSE data("IT_DB", 1))
        ELSE IF is(Str.dw) THEN (IF n # 1 THEN done(1, chipasm) ELSE data("IT_DW", 2))
        ELSE IF is(Str.option) THEN done(IF n # 1 THEN 1 ELSE 0, chipasm)
        ELSE machine(MachineInstruction(chipasm.shift_quirks, op, operands, junk))

\* chip8asm_process_assignment: retval is the return value; trap tells that
\* the process was killed while the expression was evaluated.
chip8asm_process_assignment(chipasm, label, operands, build) ==
    LET done(retval, a) == [hang |-> FALSE, trap |-> FALSE, retval |-> retval, asm |-> a]
    IN  IF ~chip8asm_should_process(chipasm) THEN done(0, chipasm)
        ELSE IF Len(operands) # 1 THEN done(1, chipasm)
        ELSE With(chip8asm_eval(chipasm.labels, operands[1], build),
                  LAMBDA e :
                     IF e.trap THEN [done(1, chipasm) EXCEPT !.trap = TRUE]
                     ELSE IF e.ret # 0 THEN done(1, chipasm)
                     ELSE With(ltable_add(chipasm.labels, label, e.value),
                               LAMBDA r :
                                  IF r.hang THEN [done(1, chipasm) EXCEPT !.hang = TRUE]
                                  ELSE done(IF r.ret THEN 1 ELSE 0,
                                            [chipasm EXCEPT !.labels = r.tab])))

\* A test of chipasm->line_label that never finds a label.
label_pending_Never(chipasm) == FALSE
\* if (chipasm->line_label): a label waits for its statement.
label_pending(chipasm) == chipasm.line_label # <<>>

\* The loop of chip8asm_process_line that reads the labels and the name of
\* the operation (NULL is <<>>).
RECURSIVE ReadLabels(_, _)
ReadLabels(chipasm, line) ==
    LET id == parse_ident(line)
    IN  IF id.ident = <<>>
        THEN [err |-> 0, asm |-> chipasm, op |-> <<>>, line |-> line]
        ELSE IF id.rest = <<>> \/ Head(id.rest) # ":"
        THEN [err |-> 0, asm |-> chipasm, op |-> id.ident, line |-> id.rest]
        ELSE IF label_pending(chipasm)
        THEN [err |-> 1, asm |-> chipasm, op |-> <<>>, line |-> id.rest]
        ELSE ReadLabels([chipasm EXCEPT !.line_label = id.ident],
                        skip_spaces(Tail(id.rest)))

\* The loop of chip8asm_process_line that reads the operands after the
\* first one.
RECURSIVE ReadOperands(_, _)
ReadOperands(operands, line) ==
    IF line = <<>> \/ Head(line) # ","
    THEN [err |-> 0, operands |-> operands]
    ELSE LET t == parse_operand(skip_spaces(Tail(line)))
         IN  IF t.operand = <<>> THEN [err |-> 1, operands |-> operands]
             ELSE IF Len(operands) >= MAX_OPERANDS THEN [err |-> 1, operands |-> operands]
             ELSE ReadOperands(Append(operands, t.operand), t.rest)

\* chip8asm_process_line: ret is the return value, asm the assembler
\* afterwards; hang and trap tell that the call never returned.
chip8asm_process_line(chipasm, line, build, junk) ==
    LET counted == [chipasm EXCEPT !.line = @ + 1]
        done(ret, a) == [hang |-> FALSE, trap |-> FALSE, ret |-> ret, asm |-> a]
        operation(l, is_assignment, ops) ==
            IF l.err # 0 THEN done(1, l.asm)
            ELSE IF l.op = <<>> THEN done(0, l.asm)
            ELSE IF ops.err # 0 THEN done(1, l.asm)
            ELSE IF is_assignment
            THEN With(chip8asm_process_assignment(l.asm, l.op, ops.operands, build),
                      LAMBDA r : [hang |-> r.hang, trap |-> r.trap, ret |-> r.retval,
                                  asm |-> r.asm])
            ELSE With(chip8asm_process_instruction(l.asm, l.op, ops.operands, junk),
                      LAMBDA r : [hang |-> r.hang, trap |-> FALSE, ret |-> r.retval,
                                  asm |-> r.asm])
        operands(l, is_assignment, first) ==
            operation(l, is_assignment,
                      IF first.operand = <<>>
                         /\ (first.rest = <<>> \/ Head(first.rest) # ",")
                      THEN [err |-> 0, operands |-> <<>>]
                      ELSE ReadOperands(<<first.operand>>, first.rest))
        statement(l, afterop, is_assignment) ==
            operands(l, is_assignment,
                     parse_operand(IF is_assignment THEN skip_spaces(Tail(afterop))
                                   ELSE afterop))
        labelled(l, afterop) ==
            statement(l, afterop, afterop # <<>> /\ Head(afterop) = "=")
    IN  With(ReadLabels(counted, skip_spaces(line)),
             LAMBDA l : labelled(l, skip_spaces(l.line)))

\* chip8_instruction_to_opcode as the assembler calls it, with the quirky
\* shifts as operations of their own: 8x06 and 8x0E without quirks, 8xy6
\* and 8xyE with them.
instruction_to_opcode(ci) ==
    CASE ci.op = "OP_SHR_QUIRK" -> chip8_instruction_to_opcode([ci EXCEPT !.op = "OP_SHR"], TRUE)
      [] ci.op = "OP_SHL_QUIRK" -> chip8_instruction_to_opcode([ci EXCEPT !.op = "OP_SHL"], TRUE)
      [] OTHER -> chip8_instruction_to_opcode(ci, FALSE)

\* chip8asm_compile_chip8op: err is the return value, opcode the opcode it
\* stored. A first operand that is no register is reported, but the
\* register-and-byte operations go on with regno = -1.
chip8asm_compile_chip8op(chipasm, instr, build) ==
    LET op == instr.chipop
        fail == [err |-> 1, trap |-> FALSE, opcode |-> 0]
        made(ci) == [err |-> 0, trap |-> FALSE, opcode |-> instruction_to_opcode(ci)]
        reg(i) == register_num(instr.operands[i])
        evaluated(i, ci(_)) ==
            With(chip8asm_eval(chipasm.labels, instr.operands[i], build),
                 LAMBDA e :
                    IF e.trap THEN [fail EXCEPT !.trap = TRUE]
                    ELSE IF e.ret # 0 THEN fail
                    ELSE made(ci(e.value)))
    IN  IF op = "OP_INVALID" THEN fail
        ELSE IF op \in NoOperandOps THEN made(Ins(op, 0, 0, 0))
        ELSE IF op = "OP_SCD" \/ op \in AddrOps
        THEN evaluated(1, LAMBDA value :
                             Ins(op, 0, 0, IF op = "OP_SCD" THEN value % 256 ELSE value))
        ELSE IF op \in RegByteOps
        THEN evaluated(2, LAMBDA value : Ins(op, reg(1), 0, value % 256))
        ELSE IF op \in RegRegOps \cup {"OP_SHR_QUIRK", "OP_SHL_QUIRK"}
        THEN IF reg(1) = -1 \/ reg(2) = -1 THEN fail
             ELSE made(Ins(op, reg(1), reg(2), 0))
        ELSE IF op \in RegOps \cup ShiftOps
        THEN IF reg(1) = -1 THEN fail ELSE made(Ins(op, reg(1), 0, 0))
        ELSE IF reg(1) = -1 \/ reg(2) = -1 THEN fail
        ELSE evaluated(3, LAMBDA value : Ins(op, reg(1), reg(2), value % 256))

\* A new program: mem is all zero (only the bytes written are kept).
chip8asm_program_new == [mem |-> [pos \in {} |-> 0], len |-> 0]

\* prog->mem[pos].
MemAt(prog, pos) == IF pos \in DOMAIN prog.mem THEN prog.mem[pos] ELSE 0

\* One turn of the loop of chip8asm_emit, for instruction i; st is what the
\* turns before it left: ret is the return value when one of them returned,
\* trap tells that the process was killed in chip8asm_eval, overrun that a
\* byte was stored outside prog->mem, which has undefined behaviour (the
\* bytes outside prog->mem are not kept).
EmitStep(chipasm, i, st, build) ==
    LET instr == chipasm.instructions[i]
        mempos == instr.pc - CHIP8_PROG_START
        store(bytes, inside) ==
            [st EXCEPT
               !.prog = [mem |-> [pos \in {mempos + k - 1 : k \in inside} |->
                                    bytes[pos - mempos + 1]] @@ st.prog.mem,
                         len |-> IF mempos + Len(bytes) > st.prog.len
                                 THEN mempos + Len(bytes) ELSE st.prog.len],
               !.overrun = @ \/ inside # 1..Len(bytes)]
        compiled(c) ==
            IF c.trap \/ c.err # 0
            THEN [st EXCEPT !.ret = 1, !.trap = c.trap, !.done = TRUE]
            ELSE With(IF instr.type = "IT_DB" THEN <<c.opcode % 256>>
                      ELSE <<(c.opcode \div 256) % 256, c.opcode % 256>>,
                      LAMBDA bytes :
                         store(bytes, {k \in 1..Len(bytes) :
                                          mempos + k - 1 \in 0..(CHIP8_PROG_SIZE - 1)}))
    IN  IF st.done THEN st
        ELSE IF instr.type = "IT_CHIP8_OP"
        THEN compiled(chip8asm_compile_chip8op(chipasm, instr, build))
        ELSE With(chip8asm_eval(chipasm.labels, instr.operands[1], build),
                  LAMBDA e : compiled([err |-> e.ret, trap |-> e.trap,
                                       opcode |-> IF e.ret = 0 THEN e.value ELSE 0]))

\* The turns for instructions lo to hi, in order: those of the lower half,
\* then those of the upper half; none once a turn has returned.
RECURSIVE EmitRange(_, _, _, _, _)
EmitRange(chipasm, lo, hi, st, build) ==
    IF st.done \/ lo > hi THEN st
    ELSE IF lo = hi THEN EmitStep(chipasm, lo, st, build)
    ELSE With((lo + hi) \div 2, LAMBDA mid :
            EmitRange(chipasm, mid + 1, hi, EmitRange(chipasm, lo, mid, st, build), build))

\* The loop of chip8asm_emit from instruction i on, and what follows it: the
\* pending instructions are cleared when every turn succeeded.
EmitFrom(chipasm, i, prog, overrun, build) ==
    With(EmitRange(chipasm, i, Len(chipasm.instructions),
                   [ret |-> 0, trap |-> FALSE, done |-> FALSE, overrun |-> overrun,
                    prog |-> prog], build),
         LAMBDA st : [ret |-> st.ret, trap |-> st.trap, overrun |-> st.overrun,
                      prog |-> st.prog,
                      asm |-> IF st.done THEN chipasm
                              ELSE [chipasm EXCEPT !.instructions = <<>>]])

\* chip8asm_emit(chipasm, prog).
chip8asm_emit(chipasm, prog, build) == EmitFrom(chipasm, 1, prog, FALSE, build)

(***************************************************************************)
(* The assembler driven line by line, as the driver and the tests do: any  *)
(* number of chip8asm_process_line calls, whatever they return, then       *)
(* chip8asm_emit. A line is its text with what a reader sees in it: its    *)
(* label, the kind of its statement, the name it defines or tests and its  *)
(* operand.                                                                *)
(***************************************************************************)

\* The most lines given to the assembler from LayoutLines and from CondLines.
MaxLines == 4
MaxCondLines == 5

LayoutLines ==
    {
     [text |-> <<>>, label |-> <<>>, kind |-> "none", name |-> <<>>, arg |-> <<>>],
     [text |-> <<";", " ", "c">>, label |-> <<>>, kind |-> "none", name |-> <<>>, arg |-> <<>>],
     [text |-> <<"L", ":">>, label |-> <<"L">>, kind |-> "none", name |-> <<>>, arg |-> <<>>],
     [text |-> <<"L", ":", " ", "D", "B", " ", "1">>, label |-> <<"L">>, kind |-> "db", name |-> <<>>, arg |-> <<"1">>],
     [text |-> <<"D", "B", " ", "L">>, label |-> <<>>, kind |-> "db", name |-> <<>>, arg |-> <<"L">>],
     [text |-> <<"D", "W", " ", "L">>, label |-> <<>>, kind |-> "dw", name |-> <<>>, arg |-> <<"L">>],
     [text |-> <<"J", "P", " ", "L">>, label |-> <<>>, kind |-> "op", name |-> <<>>, arg |-> <<"L">>],
     [text |-> <<"X", " ", "=", " ", "1">>, label |-> <<>>, kind |-> "assign", name |-> <<"X">>, arg |-> <<"1">>],
     [text |-> <<"X", " ", "=", " ", "L">>, label |-> <<>>, kind |-> "assign", name |-> <<"X">>, arg |-> <<"L">>],
     [text |-> <<"D", "E", "F", "I", "N", "E", " ", "D">>, label |-> <<>>, kind |-> "define", name |-> <<"D">>, arg |-> <<>>]
    }

CondLines ==
    {
     [text |-> <<"D", "E", "F", "I", "N", "E", " ", "T">>, label |-> <<>>, kind |-> "define", name |-> <<"T">>, arg |-> <<>>],
     [text |-> <<"I", "F", "D", "E", "F", " ", "T">>, label |-> <<>>, kind |-> "ifdef", name |-> <<"T">>, arg |-> <<>>],
     [text |-> <<"I", "F", "N", "D", "E", "F", " ", "T">>, label |-> <<>>, kind |-> "ifndef", name |-> <<"T">>, arg |-> <<>>],
     [text |-> <<"E", "L", "S", "E">>, label |-> <<>>, kind |-> "else", name |-> <<>>, arg |-> <<>>],
     [text |-> <<"E", "N", "D", "I", "F">>, label |-> <<>>, kind |-> "endif", name |-> <<>>, arg |-> <<>>],
     [text |-> <<"D", "B", " ", "1">>, label |-> <<>>, kind |-> "db", name |-> <<>>, arg |-> <<"1">>]
    }

\* The lines of test_asm_align and of test_asm_if.
TestAlignLines ==
    <<
     [text |-> <<"D", "W", " ", "#", "1", "2", "3", "4">>, label |-> <<>>, kind |-> "dw", name |-> <<>>, arg |-> <<"#", "1", "2", "3", "4">>],
     [text |-> <<"D", "B", " ", "#", "5", "6">>, label |-> <<>>, kind |-> "db", name |-> <<>>, arg |-> <<"#", "5", "6">>],
     [text |-> <<"D", "W", " ", "#", "7", "8", "9", "A">>, label |-> <<>>, kind |-> "dw", name |-> <<>>, arg |-> <<"#", "7", "8", "9", "A">>],
     [text |-> <<"J", "P", " ", "#", "2", "0", "0">>, label |-> <<>>, kind |-> "op", name |-> <<>>, arg |-> <<"#", "2", "0", "0">>],
     [text |-> <<"D", "B", " ", "#", "B", "C">>, label |-> <<>>, kind |-> "db", name |-> <<>>, arg |-> <<"#", "B", "C">>],
     [text |-> <<"l", "b", "l", ":">>, label |-> <<"l", "b", "l">>, kind |-> "none", name |-> <<>>, arg |-> <<>>],
     [text |-> <<"J", "P", " ", "l", "b", "l">>, label |-> <<>>, kind |-> "op", name |-> <<>>, arg |-> <<"l", "b", "l">>]
    >>

TestIfLines ==
    <<
     [text |-> <<"D", "E", "F", "I", "N", "E", " ", "T", "E", "S", "T", "1">>, label |-> <<>>, kind |-> "define", name |-> <<"T", "E", "S", "T", "1">>, arg |-> <<>>],
     [text |-> <<"D", "E", "F", "I", "N", "E", " ", "T", "E", "S", "T", "2">>, label |-> <<>>, kind |-> "define", name |-> <<"T", "E", "S", "T", "2">>, arg |-> <<>>],
     [text |-> <<"I", "F", "D", "E", "F", " ", "T", "E", "S", "T", "1">>, label |-> <<>>, kind |-> "ifdef", name |-> <<"T", "E", "S", "T", "1">>, arg |-> <<>>],
     [text |-> <<"I", "F", "D", "E", "F", " ", "U", "N", "D", "E", "F", "I", "N", "E", "D">>, label |-> <<>>, kind |-> "ifdef", name |-> <<"U", "N", "D", "E", "F", "I", "N", "E", "D">>, arg |-> <<>>],
     [text |-> <<"D", "B", " ", "1">>, label |-> <<>>, kind |-> "db", name |-> <<>>, arg |-> <<"1">>],
     [text |-> <<"E", "L", "S", "E">>, label |-> <<>>, kind |-> "else", name |-> <<>>, arg |-> <<>>],
     [text |-> <<"D", "B", " ", "2">>, label |-> <<>>, kind |-> "db", name |-> <<>>, arg |-> <<"2">>],
     [text |-> <<"E", "N", "D", "I", "F">>, label |-> <<>>, kind |-> "endif", name |-> <<>>, arg |-> <<>>],
     [text |-> <<"E", "L", "S", "E">>, label |-> <<>>, kind |-> "else", name |-> <<>>, arg |-> <<>>],
     [text |-> <<"I", "F", "D", "E", "F", " ", "T", "E", "S", "T", "2">>, label |-> <<>>, kind |-> "ifdef", name |-> <<"T", "E", "S", "T", "2">>, arg |-> <<>>],
     [text |-> <<"D", "B", " ", "3">>, label |-> <<>>, kind |-> "db", name |-> <<>>, arg |-> <<"3">>],
     [text |-> <<"E", "L", "S", "E">>, label |-> <<>>, kind |-> "else", name |-> <<>>, arg |-> <<>>],
     [text |-> <<"D", "B", " ", "4">>, label |-> <<>>, kind |-> "db", name |-> <<>>, arg |-> <<"4">>],
     [text |-> <<"E", "N", "D", "I", "F">>, label |-> <<>>, kind |-> "endif", name |-> <<>>, arg |-> <<>>],
     [text |-> <<"E", "N", "D", "I", "F">>, label |-> <<>>, kind |-> "endif", name |-> <<>>, arg |-> <<>>],
     [text |-> <<"I", "F", "N", "D", "E", "F", " ", "T", "E", "S", "T", "2">>, label |-> <<>>, kind |-> "ifndef", name |-> <<"T", "E", "S", "T", "2">>, arg |-> <<>>],
     [text |-> <<"D", "B", " ", "5">>, label |-> <<>>, kind |-> "db", name |-> <<>>, arg |-> <<"5">>],
     [text |-> <<"E", "L", "S", "E">>, label |-> <<>>, kind |-> "else", name |-> <<>>, arg |-> <<>>],
     [text |-> <<"D", "B", " ", "6">>, label |-> <<>>, kind |-> "db", name |-> <<>>, arg |-> <<"6">>],
     [text |-> <<"E", "N", "D", "I", "F">>, label |-> <<>>, kind |-> "endif", name |-> <<>>, arg |-> <<>>]
    >>

Suites == {"layout", "cond", "test_asm_align", "test_asm_if"}

\* The lines the driver may give next.
NextLines ==
    CASE asuite = "layout" -> IF Len(alines) < MaxLines THEN LayoutLines ELSE {}
      [] asuite = "cond" -> IF Len(alines) < MaxCondLines THEN CondLines ELSE {}
      [] asuite = "test_asm_align" ->
           IF Len(alines) < Len(TestAlignLines) THEN {TestAlignLines[Len(alines) + 1]} ELSE {}
      [] asuite = "test_asm_if" ->
           IF Len(alines) < Len(TestIfLines) THEN {TestIfLines[Len(alines) + 1]} ELSE {}

AsmInit ==
    /\ CodecIdle
    /\ EvalIdle
    /\ TableIdle
    /\ SessIdle
    /\ DisIdle
    /\ ListIdle
    /\ WalkIdle
    /\ SourceIdle
    /\ StackIdle
    /\ OrderIdle
    /\ asuite \in Suites
    /\ aphase = "lines"
    /\ asm = chip8asm_new(FALSE)
    /\ abefore = asm
    /\ alines = <<>>
    /\ arets = <<>>
    /\ aprog = Idle

\* One call chip8asm_process_line(chipasm, line).
ProcessLine ==
    /\ aphase = "lines"
    /\ \E l \in NextLines, build \in Builds, junk \in JunkInstrs :
          With(chip8asm_process_line(asm, l.text, build, junk),
               LAMBDA r :
                  /\ aphase' = IF r.hang THEN "hung" ELSE IF r.trap THEN "killed" ELSE "lines"
                  /\ asm' = r.asm
                  /\ arets' = IF r.hang \/ r.trap THEN arets ELSE Append(arets, r.ret)
                  /\ alines' = Append(alines, l))
    /\ abefore' = asm
    /\ UNCHANGED <<asuite, aprog, codecVars, evalVars, tableVars, sessVars, disVars, listVars, walkVars, sourceVars, stackVars, orderVars>>

\* One call chip8asm_emit(chipasm, prog) with a new program.
Emit ==
    /\ aphase = "lines"
    /\ \E build \in Builds :
          With(chip8asm_emit(asm, chip8asm_program_new, build),
               LAMBDA r :
                  /\ aphase' = IF r.trap THEN "killed" ELSE "emitted"
                  /\ asm' = r.asm
                  /\ aprog' = [ret |-> r.ret, overrun |-> r.overrun, mem |-> r.prog.mem,
                               len |-> r.prog.len])
    /\ abefore' = asm
    /\ UNCHANGED <<asuite, alines, arets, codecVars, evalVars, tableVars, sessVars, disVars, listVars, walkVars, sourceVars, stackVars, orderVars>>

AsmNext == ProcessLine \/ Emit

SpecAsm == AsmInit /\ [][AsmNext]_vars

(***************************************************************************)
(* What the lines given so far mean to a reader of the assembly language:  *)
(* the layout of the statements that were accepted, and the conditional    *)
(* blocks as a stack of frames.                                            *)
(***************************************************************************)

Statements == {"db", "dw", "op"}
EvenUp(pc) == ((pc + 1) \div 2) * 2

\* The last line given and what chip8asm_process_line returned for it.
LastLine == alines[Len(alines)]
LastRet == arets[Len(arets)]
Returned == aphase = "lines" /\ alines # <<>>

\* After the first i lines: the program counter, the label waiting for a
\* statement, the address each label was first bound to and the line that
\* bound it, and the accepted statements with their addresses.
RECURSIVE RefLayout(_)
RefLayout(i) ==
    IF i = 0
    THEN [pc |-> CHIP8_PROG_START, pending |-> <<>>, bound |-> [n \in {} |-> 0],
          placed |-> <<>>]
    ELSE LET p == RefLayout(i - 1)
             l == alines[i]
             pending == IF l.label # <<>> /\ p.pending = <<>> THEN l.label ELSE p.pending
             accepted == i <= Len(arets) /\ arets[i] = 0 /\ l.kind \in Statements
             addr == IF l.kind = "op" THEN EvenUp(p.pc) ELSE p.pc
         IN  IF ~accepted THEN [p EXCEPT !.pending = pending]
             ELSE [pc |-> addr + (IF l.kind = "db" THEN 1 ELSE 2),
                   pending |-> <<>>,
                   bound |-> IF pending = <<>> \/ pending \in DOMAIN p.bound THEN p.bound
                             ELSE [n \in DOMAIN p.bound \cup {pending} |->
                                      IF n = pending THEN [addr |-> addr, at |-> i]
                                      ELSE p.bound[n]],
                   placed |-> Append(p.placed,
                                     [kind |-> l.kind, addr |-> addr, arg |-> l.arg, at |-> i])]

\* The bytes a statement whose operand has the value v is assembled to; the
\* machine instruction of the layout lines is JP (1nnn).
RefBytes(kind, v) ==
    CASE kind = "db" -> <<v % 256>>
      [] kind = "dw" -> <<v \div 256, v % 256>>
      [] kind = "op" -> <<16 + (v % 4096) \div 256, v % 256>>

\* C3: a label used as the operand of a machine instruction, DB or DW on a
\* line processed before the line that defines the label is resolved at
\* emit to the label's address and emit succeeds; an assignment whose
\* expression mentions a name not yet defined makes chip8asm_process_line
\* return an error.
C3_ForwardReference ==
    /\ (asuite = "layout" /\ aphase = "emitted") =>
          LET r == RefLayout(Len(alines))
          IN  \A u \in 1..Len(r.placed) :
                 LET s == r.placed[u]
                 IN  (s.arg \in DOMAIN r.bound /\ r.bound[s.arg].at > s.at) =>
                        /\ aprog.ret = 0
                        /\ LET bytes == RefBytes(s.kind, r.bound[s.arg].addr)
                           IN  \A k \in 1..Len(bytes) :
                                  MemAt(aprog, s.addr - CHIP8_PROG_START + k - 1) = bytes[k]
    /\ (asuite = "layout" /\ Returned /\ LastLine.kind = "assign"
        /\ isidentstart(LastLine.arg[1])
        /\ ~ltable_get(abefore.labels, LastLine.arg).found) =>
          LastRet = 1

\* The names the last call was to define: the name of an assignment, the
\* label waiting for the statement of the line.
Defining ==
    IF LastLine.kind = "assign" THEN {LastLine.name}
    ELSE IF LastLine.kind \in Statements
    THEN {abefore.line_label, LastLine.label} \ {<<>>}
    ELSE {}

\* C4: a second definition of an already defined name, by a label attached
\* to a statement or by an assignment, makes that chip8asm_process_line
\* call return an error.
C4_RedefinitionIsError ==
    (asuite = "layout" /\ Returned
     /\ \E n \in Defining : ltable_get(abefore.labels, n).found)
    => LastRet = 1

\* C6: every pending machine instruction has an even address, DB and DW are
\* placed at the current program counter without alignment, a machine
\* instruction at the next even one, and the program counter advances by 1
\* for DB and by 2 for DW and for every machine instruction.
C6_AlignmentAndAdvance ==
    (asuite \in {"layout", "test_asm_align"} /\ aphase = "lines") =>
        /\ \A i \in 1..Len(asm.instructions) :
              asm.instructions[i].type = "IT_CHIP8_OP" => asm.instructions[i].pc % 2 = 0
        /\ (alines # <<>> /\ LastRet = 0 /\ LastLine.kind \in Statements) =>
              LET at == IF LastLine.kind = "op" THEN EvenUp(abefore.pc) ELSE abefore.pc
              IN  /\ Len(asm.instructions) = Len(abefore.instructions) + 1
                  /\ asm.instructions[Len(asm.instructions)].pc = at
                  /\ asm.pc = at + (IF LastLine.kind = "db" THEN 1 ELSE 2)

\* C7: a label is bound to the address of the next statement that appends a
\* pending instruction: the even-aligned address for a machine instruction,
\* the current program counter for DB and DW.
C7_LabelBoundToNextStatement ==
    (asuite \in {"layout", "test_asm_align"} /\ Returned /\ LastRet = 0
     /\ LastLine.kind \in Statements)
    => \A n \in {abefore.line_label, LastLine.label} \ {<<>>} :
          ltable_get(asm.labels, n) =
              [found |-> TRUE,
               value |-> IF LastLine.kind = "op" THEN EvenUp(abefore.pc) ELSE abefore.pc]

\* After the first i lines: the stack of conditional frames (active: the
\* branch being read is the selected one; other: the ELSE has been read),
\* the names defined, the operands of the statements processed, and
\* whether the directives so far are properly nested.
AllActive(stack) == \A k \in 1..Len(stack) : stack[k].active

RECURSIVE RefCond(_)
RefCond(i) ==
    IF i = 0 THEN [stack |-> <<>>, defs |-> {}, stmts |-> <<>>, nested |-> TRUE]
    ELSE LET p == RefCond(i - 1)
             l == alines[i]
             top == Len(p.stack)
         IN  CASE l.kind \in {"ifdef", "ifndef"} ->
                    [p EXCEPT !.stack = Append(@,
                        [active |-> (l.name \in p.defs) <=> (l.kind = "ifdef"),
                         other |-> FALSE])]
               [] l.kind = "else" ->
                    IF top = 0 \/ p.stack[top].other THEN [p EXCEPT !.nested = FALSE]
                    ELSE [p EXCEPT !.stack[top] = [active |-> ~@.active, other |-> TRUE]]
               [] l.kind = "endif" ->
                    IF top = 0 THEN [p EXCEPT !.nested = FALSE]
                    ELSE [p EXCEPT !.stack = Front(@)]
               [] l.kind = "define" ->
                    IF AllActive(p.stack) THEN [p EXCEPT !.defs = @ \cup {l.name}] ELSE p
               [] l.kind = "db" ->
                    IF AllActive(p.stack) THEN [p EXCEPT !.stmts = Append(@, l.arg)] ELSE p
               [] OTHER -> p

\* Whether every directive among the lines given so far is properly nested.
RECURSIVE ProperlyNested(_)
ProperlyNested(i) == i = 0 \/ (RefCond(i).nested /\ ProperlyNested(i - 1))

\* C5: for every properly nested sequence of IFDEF/IFNDEF/ELSE/ENDIF, a
\* statement is processed exactly when it lies, for every enclosing
\* conditional, in the branch its condition selects: (if_level,
\* if_skip_else, if_skip_endif) agrees at every line with the stack of
\* frames, and test_asm_if emits exactly the bytes 2 and 6.
C5_ConditionalsAgreeWithStack ==
    /\ (asuite \in {"cond", "test_asm_if"} /\ aphase = "lines"
        /\ ProperlyNested(Len(alines))) =>
          LET r == RefCond(Len(alines))
          IN  /\ asm.if_level = Len(r.stack)
              /\ chip8asm_should_process(asm) <=> AllActive(r.stack)
              /\ [k \in 1..Len(asm.instructions) |-> asm.instructions[k].operands[1]]
                     = r.stmts
    /\ (asuite = "test_asm_if" /\ aphase = "emitted" /\ Len(alines) = Len(TestIfLines)) =>
          /\ aprog.ret = 0
          /\ aprog.len = 2
          /\ MemAt(aprog, 0) = 2
          /\ MemAt(aprog, 1) = 6

\* test_asm_if has been assembled to its two bytes, and an ELSE nested in a
\* skipped block has been read.
C5_Witness ==
    \/ /\ asuite = "test_asm_if"
       /\ aphase = "emitted"
       /\ Len(alines) = Len(TestIfLines)
       /\ aprog.len = 2
    \/ /\ asuite = "cond"
       /\ aphase = "lines"
       /\ ProperlyNested(Len(alines))
       /\ Len(RefCond(Len(alines)).stack) = 2
       /\ ~RefCond(Len(alines)).stack[1].active
       /\ RefCond(Len(alines)).stack[2].other

(***************************************************************************)
(* The shift opcodes 8xy6 and 8xyE under the two shift-quirks settings.    *)
(***************************************************************************)
IsShiftWord(w) == w \div 4096 = 8 /\ w % 16 \in {6, 14}
ShiftOpOf(w) == IF w % 16 = 6 THEN "OP_SHR" ELSE "OP_SHL"

\* C18: a word 8xy6 or 8xyE decodes, with shift quirks off, into SHR or SHL
\* with Vx = x exactly when y = 0 and into the invalid instruction holding
\* the word when y # 0; with shift quirks on it decodes into SHR or SHL with
\* Vx = x and Vy = y for every y, and encoding the decoded instruction with
\* the same setting gives the same word.
C18_ShiftQuirks ==
    (cphase \in {"decoded", "word_round_trip"} /\ IsShiftWord(cword)) =>
        /\ cq =>
              /\ cins.op = ShiftOpOf(cword)
              /\ cins.vx = OPCODE2VX(cword)
              /\ cins.vy = OPCODE2VY(cword)
        /\ (~cq /\ OPCODE2VY(cword) = 0) =>
              /\ cins.op = ShiftOpOf(cword)
              /\ cins.vx = OPCODE2VX(cword)
        /\ (~cq /\ OPCODE2VY(cword) # 0) =>
              /\ cins.op = "OP_INVALID"
              /\ cins.u = cword
        /\ cphase = "word_round_trip" => cword2 = cword

\* A shift word with y # 0 was decoded with shift quirks on and encoded again.
C18_Witness ==
    /\ cphase = "word_round_trip"
    /\ cq
    /\ IsShiftWord(cword)
    /\ OPCODE2VY(cword) # 0
    /\ cins.op \in {"OP_SHR", "OP_SHL"}
    /\ cword2 = cword

(***************************************************************************)
(* The label table driven on its own: ltable_add and ltable_get are called *)
(* on a table that starts empty, with names of which some share a bucket.  *)
(***************************************************************************)
MaxCalls == 4

\* Ab, BA and IZ hash to the same bucket; L to another.
TableNames == {<<"A", "b">>, <<"B", "A">>, <<"I", "Z">>, <<"L">>}
TableAddrs == {1, 2}

TableInit ==
    /\ CodecIdle
    /\ EvalIdle
    /\ AsmIdle
    /\ SessIdle
    /\ DisIdle
    /\ ListIdle
    /\ WalkIdle
    /\ SourceIdle
    /\ StackIdle
    /\ OrderIdle
    /\ tphase = "calls"
    /\ ttab = EmptyTable
    /\ tcalls = <<>>

TableAdd ==
    /\ tphase = "calls"
    /\ Len(tcalls) < MaxCalls
    /\ \E label \in TableNames, addr \in TableAddrs :
          With(ltable_add(ttab, label, addr), LAMBDA r :
             /\ tphase' = IF r.hang THEN "hung" ELSE "calls"
             /\ ttab' = r.tab
             /\ tcalls' = Append(tcalls, [op |-> "add", label |-> label, addr |-> addr,
                                          hang |-> r.hang, ret |-> r.ret]))
    /\ UNCHANGED <<codecVars, evalVars, asmVars, sessVars, disVars, listVars, walkVars, sourceVars, stackVars, orderVars>>

TableGet ==
    /\ tphase = "calls"
    /\ Len(tcalls) < MaxCalls
    /\ \E key \in TableNames :
          With(ltable_get(ttab, key), LAMBDA r :
             tcalls' = Append(tcalls, [op |-> "get", label |-> key, addr |-> r.value,
                                       hang |-> FALSE, ret |-> r.found]))
    /\ UNCHANGED <<tphase, ttab, codecVars, evalVars, asmVars, sessVars, disVars, listVars, walkVars, sourceVars, stackVars, orderVars>>

TableNext == TableAdd \/ TableGet

SpecTable == TableInit /\ [][TableNext]_vars

\* The names given to those of the first n calls that are calls of
\* ltable_add and returned.
AddedIn(n) ==
    {tcalls[i].label : i \in {k \in 1..n : tcalls[k].op = "add" /\ ~tcalls[k].hang}}

\* C19: whatever names are added, names that share a bucket included,
\* ltable_add returns and its result is true exactly when the name was added
\* before, ltable_get finds a name exactly when it was added before, and
\* every name added before is still found in the table.
C19_TableIsAMap ==
    tphase # Idle =>
        /\ tphase = "calls"
        /\ \A i \in 1..Len(tcalls) :
              tcalls[i].ret = (tcalls[i].label \in AddedIn(i - 1))
        /\ \A label \in AddedIn(Len(tcalls)) : ltable_get(ttab, label).found

\* C34: every call of ltable_add returns, whatever was added before, three
\* names of one bucket and a name added a second time included.
C34_AddTerminates ==
    tphase # Idle =>
        \A i \in 1..Len(tcalls) : ~tcalls[i].hang

\* The address given by the first call of ltable_add for label.
FirstAddr(label) ==
    tcalls[CHOOSE i \in 1..Len(tcalls) :
              /\ tcalls[i].op = "add" /\ tcalls[i].label = label /\ ~tcalls[i].hang
              /\ \A k \in 1..(i - 1) :
                    ~(tcalls[k].op = "add" /\ tcalls[k].label = label /\ ~tcalls[k].hang)].addr

\* C38: ltable_get gives for a name the address of the first ltable_add of
\* that name; a later ltable_add of the name, whatever it returns, does not
\* change it.
C38_FirstDefinitionWins ==
    tphase # Idle =>
        /\ \A label \in AddedIn(Len(tcalls)) :
              ltable_get(ttab, label).found =>
                 ltable_get(ttab, label).value = FirstAddr(label)
        /\ \A i \in 1..Len(tcalls) :
              (tcalls[i].op = "get" /\ tcalls[i].ret) =>
                 tcalls[i].addr = FirstAddr(tcalls[i].label)

(***************************************************************************)
(* Sessions: one assembler and one program, with chip8asm_process_line and *)
(* chip8asm_emit called on them by one of three drivers. "calls" is a      *)
(* caller of the library, as test_asm is: lines and emits in any order,    *)
(* whatever they return. "run" is run() of chip8asm.c: lines until one     *)
(* fails, then one emit. "full" is a caller whose program is one word      *)
(* short of filling the program region when the session starts.            *)
(***************************************************************************)
MaxSessionCalls == 5
MaxFullCalls == 3

Drivers == {"calls", "run", "full"}

SessionLines ==
    {<<"D", "B", " ", "1">>,
     <<"D", "W", " ", "U">>,
     <<"L", ":", " ", "C", "L", "S">>,
     <<"J", "P", " ", "L">>,
     <<"F", "O", "O">>,
     <<"R", "E", "T">>}

FullLines == {<<"D", "W", " ", "7">>, <<"D", "B", " ", "7">>}

\* The number of lines DW 7 that leave room for one more word.
FilledLines == CHIP8_PROG_SIZE \div 2 - 1

\* The assembler after chip8asm_process_line was given n times the line DW 7.
FilledAsm(n) ==
    [chip8asm_new(FALSE) EXCEPT
       !.instructions = [i \in 1..n |->
                            [type |-> "IT_DW", chipop |-> "OP_INVALID",
                             operands |-> << <<"7">> >>, n_operands |-> 1,
                             line |-> i, pc |-> CHIP8_PROG_START + 2 * (i - 1)]],
       !.line = n,
       !.pc = CHIP8_PROG_START + 2 * n]

SessInit ==
    /\ CodecIdle
    /\ EvalIdle
    /\ AsmIdle
    /\ TableIdle
    /\ DisIdle
    /\ ListIdle
    /\ WalkIdle
    /\ SourceIdle
    /\ StackIdle
    /\ OrderIdle
    /\ sdriver \in Drivers
    /\ sphase = "calls"
    /\ sasm = IF sdriver = "full" THEN FilledAsm(FilledLines) ELSE chip8asm_new(FALSE)
    /\ sprog = chip8asm_program_new
    /\ scalls = <<>>

\* run() stops at the first chip8asm_process_line that fails.
RunGoesOn_PastErrors == \A i \in 1..Len(scalls) : scalls[i].call = "process_line"
\* run() of chip8asm.c goes on reading lines, and then emits, while every
\* call so far was a chip8asm_process_line that returned 0.
RunGoesOn ==
    \A i \in 1..Len(scalls) : scalls[i].call = "process_line" /\ scalls[i].ret = 0

\* The driver may make one more call.
MayCall ==
    /\ sphase = "calls"
    /\ Len(scalls) < (IF sdriver = "full" THEN MaxFullCalls ELSE MaxSessionCalls)
    /\ sdriver = "run" => RunGoesOn

\* One call chip8asm_process_line(chipasm, line).
SessLine ==
    /\ MayCall
    /\ \E line \in IF sdriver = "full" THEN FullLines ELSE SessionLines,
          build \in Builds, junk \in JunkInstrs :
          With(chip8asm_process_line(sasm, line, build, junk), LAMBDA r :
             /\ sphase' = IF r.hang THEN "hung" ELSE IF r.trap THEN "killed" ELSE "calls"
             /\ sasm' = r.asm
             /\ scalls' = Append(scalls, [call |-> "process_line", line |-> line,
                                          returned |-> ~(r.hang \/ r.trap), ret |-> r.ret,
                                          asm |-> r.asm, prog |-> sprog]))
    /\ UNCHANGED <<sdriver, sprog, codecVars, evalVars, asmVars, tableVars, disVars, listVars, walkVars, sourceVars, stackVars, orderVars>>

\* One call chip8asm_emit(chipasm, prog). Nothing is known of the session
\* once a byte was stored outside the program.
SessEmit ==
    /\ MayCall
    /\ \E build \in Builds :
          With(chip8asm_emit(sasm, sprog, build), LAMBDA r :
             /\ sphase' = IF r.trap THEN "killed" ELSE IF r.overrun THEN "overrun"
                           ELSE "calls"
             /\ sasm' = r.asm
             /\ sprog' = r.prog
             /\ scalls' = Append(scalls, [call |-> "emit", line |-> <<>>,
                                          returned |-> ~r.trap, ret |-> r.ret,
                                          asm |-> r.asm, prog |-> r.prog]))
    /\ UNCHANGED <<sdriver, codecVars, evalVars, asmVars, tableVars, disVars, listVars, walkVars, sourceVars, stackVars, orderVars>>

SessNext == SessLine \/ SessEmit

SpecSession == SessInit /\ [][SessNext]_vars

\* The assembler and the program before call i.
AsmBefore(i) ==
    IF i > 1 THEN scalls[i - 1].asm
    ELSE IF sdriver = "full" THEN FilledAsm(FilledLines) ELSE chip8asm_new(FALSE)
ProgBefore(i) == IF i > 1 THEN scalls[i - 1].prog ELSE chip8asm_program_new

\* The calls of chip8asm_emit made so far that returned.
Emits == {i \in 1..Len(scalls) : scalls[i].call = "emit" /\ scalls[i].returned}

\* The calls of chip8asm_process_line made so far that returned.
LineCalls == {i \in 1..Len(scalls) : scalls[i].call = "process_line" /\ scalls[i].returned}

\* The offsets in the program of the bytes of a pending instruction.
Offsets(instr) ==
    {instr.pc - CHIP8_PROG_START + k : k \in 0..(IF instr.type = "IT_DB" THEN 0 ELSE 1)}

\* What the second pass makes of one pending instruction: err tells that it
\* fails, value is the 16-bit value it computes.
Encoding(chipasm, instr) ==
    With(CHOOSE build \in Builds : TRUE, LAMBDA build :
       IF instr.type = "IT_CHIP8_OP"
       THEN With(chip8asm_compile_chip8op(chipasm, instr, build),
                 LAMBDA c : [err |-> c.err # 0 \/ c.trap, value |-> c.opcode])
       ELSE With(chip8asm_eval(chipasm.labels, instr.operands[1], build),
                 LAMBDA e : [err |-> e.ret # 0 \/ e.trap, value |-> e.value]))

\* The pending instructions of chipasm that the second pass fails on.
Failing(chipasm) ==
    {k \in 1..Len(chipasm.instructions) : Encoding(chipasm, chipasm.instructions[k]).err}

\* The least member of a set of numbers that has one.
Least(S) == CHOOSE k \in S : \A j \in S : k <= j

\* C13: when the second pass fails on the k-th pending instruction (and on
\* none before it), chip8asm_emit returns an error and the bytes of the
\* program at the places of instruction k and of every later one are what
\* they were before the call; and in run() nothing is called after a
\* chip8asm_process_line that returned an error.
C13_StopsAtFirstError ==
    sphase # Idle =>
        /\ \A i \in Emits :
              With(AsmBefore(i), LAMBDA before :
                 Failing(before) # {} =>
                    /\ scalls[i].ret # 0
                    /\ \A j \in Least(Failing(before))..Len(before.instructions) :
                          \A pos \in Offsets(before.instructions[j]) :
                             MemAt(scalls[i].prog, pos) = MemAt(ProgBefore(i), pos))
        /\ sdriver = "run" =>
              \A i \in LineCalls : scalls[i].ret # 0 => i = Len(scalls)

\* run() called chip8asm_emit with three instructions pending; the second
\* pass failed on the second one, and the third one would have stored a
\* byte that is not zero.
C13_Witness ==
    /\ sdriver = "run"
    /\ scalls # <<>>
    /\ Len(scalls) \in Emits
    /\ With(AsmBefore(Len(scalls)), LAMBDA before :
          /\ Len(before.instructions) = 3
          /\ Failing(before) = {2}
          /\ ~Encoding(before, before.instructions[3]).err
          /\ Encoding(before, before.instructions[3]).value % 256 # 0
          /\ \A pos \in Offsets(before.instructions[3]) : MemAt(sprog, pos) = 0)
    /\ scalls[Len(scalls)].ret # 0

\* C14: chip8asm_emit stores no byte outside the program region (its
\* CHIP8_PROG_SIZE bytes from offset 0) and the length it leaves in the
\* program is at most CHIP8_PROG_SIZE.
C14_EmitStaysInProgram ==
    sphase # Idle =>
        /\ sphase # "overrun"
        /\ \A i \in Emits : scalls[i].prog.len <= CHIP8_PROG_SIZE

\* The bytes of a pending instruction, first to last: one byte for DB, the
\* high byte and then the low byte for DW and for a machine instruction.
BytesOf(chipasm, instr) ==
    With(Encoding(chipasm, instr).value, LAMBDA value :
       IF instr.type = "IT_DB" THEN <<value % 256>>
       ELSE <<(value \div 256) % 256, value % 256>>)

\* The greater of two numbers, and the greatest of a set of numbers or 0.
Max(a, b) == IF a >= b THEN a ELSE b
Greatest(S) == IF S = {} THEN 0 ELSE CHOOSE k \in S : \A j \in S : k >= j

\* C15: after chip8asm_emit returned 0, every instruction that was pending,
\* at address a, has its bytes in the program from offset a - 0x200 on (one
\* byte, the low 8 bits of its value, for DB; the 16 bits of its value, high
\* byte first, for DW and for a machine instruction), and the length of the
\* program is the greater of its length before the call and the highest
\* offset written plus one: it never decreases.
C15_EmitPlacesBytes ==
    sphase # Idle =>
        \A i \in Emits :
           scalls[i].ret = 0 =>
              With(AsmBefore(i), LAMBDA before :
                 /\ \A j \in 1..Len(before.instructions) :
                       With(before.instructions[j], LAMBDA instr :
                          \A k \in 1..Len(BytesOf(before, instr)) :
                             MemAt(scalls[i].prog, instr.pc - CHIP8_PROG_START + k - 1)
                                = BytesOf(before, instr)[k])
                 /\ scalls[i].prog.len =
                       Max(ProgBefore(i).len,
                           Greatest(UNION {{pos + 1 : pos \in Offsets(before.instructions[j])} :
                                             j \in 1..Len(before.instructions)}))
                 /\ scalls[i].prog.len >= ProgBefore(i).len)

\* The lines of SessionLines that hold a machine instruction, and the word
\* each one stands for when the label table is labels: CLS is 00E0, RET is
\* 00EE and JP L is 1nnn with nnn the address of L.
MachineLines == {<<"L", ":", " ", "C", "L", "S">>, <<"J", "P", " ", "L">>, <<"R", "E", "T">>}
WordOf(line, labels) ==
    IF line = <<"R", "E", "T">> THEN 238
    ELSE IF line = <<"J", "P", " ", "L">> THEN 4096 + (ltable_get(labels, <<"L">>).value % 4096)
    ELSE 224

\* The 16-bit word of a program at an offset, high byte first.
WordAt(prog, pos) == MemAt(prog, pos) * 256 + MemAt(prog, pos + 1)

\* Calls i, i + 1 and i + 2 are a chip8asm_emit, a chip8asm_process_line of
\* one machine instruction and a chip8asm_emit, and each returned 0.
EmitLineEmit(i) ==
    /\ {i, i + 2} \subseteq Emits
    /\ i + 1 \in LineCalls
    /\ scalls[i + 1].line \in MachineLines
    /\ \A k \in {i, i + 1, i + 2} : scalls[k].ret = 0

\* C16: a chip8asm_emit that returned 0 leaves no instruction pending and
\* leaves the label table and pc as they were; when a chip8asm_process_line
\* of one machine instruction and a second chip8asm_emit follow it, and
\* return 0, the second emit has stored the word of that instruction at the
\* next even address and no other byte, and the word at offset len - 2 of
\* the program is the word of that instruction.
C16_EmitThenOneInstruction ==
    sphase \notin {Idle, "overrun"} =>
        /\ \A i \in Emits :
              scalls[i].ret = 0 =>
                 /\ scalls[i].asm.instructions = <<>>
                 /\ scalls[i].asm.labels = AsmBefore(i).labels
                 /\ scalls[i].asm.pc = AsmBefore(i).pc
        /\ \A i \in 1..Len(scalls) :
              EmitLineEmit(i) =>
                 With(EvenUp(scalls[i].asm.pc) - CHIP8_PROG_START, LAMBDA pos :
                    With(WordOf(scalls[i + 1].line, scalls[i + 2].asm.labels), LAMBDA word :
                       /\ WordAt(scalls[i + 2].prog, pos) = word
                       /\ \A other \in (DOMAIN scalls[i].prog.mem
                                            \cup DOMAIN scalls[i + 2].prog.mem)
                                           \ {pos, pos + 1} :
                             MemAt(scalls[i + 2].prog, other) = MemAt(scalls[i].prog, other)
                       /\ WordAt(scalls[i + 2].prog, scalls[i + 2].prog.len - 2) = word))

\* What of struct chip8asm a failing line is to leave alone: pc, the label
\* table, the pending label, the pending instructions and the state of the
\* conditionals.
Kept(chipasm) ==
    <<chipasm.pc, chipasm.labels, chipasm.line_label, chipasm.instructions,
      chipasm.if_level, chipasm.if_skip_else, chipasm.if_skip_endif>>

\* C17: a chip8asm_process_line that returns an error leaves pc, the label
\* table, the pending label, the pending instructions and the state of the
\* conditionals as they were before the call.
C17_FailingLineChangesNothing ==
    sphase # Idle =>
        \A i \in LineCalls :
           scalls[i].ret # 0 => Kept(scalls[i].asm) = Kept(AsmBefore(i))

(***************************************************************************)
(* Disassembler. A jpret_list is the sequence of its len elements; index i *)
(* of the code is index i + 1 here. A return point is its offset in the    *)
(* program, a jump point its offset with the lowest bit set. realloc and   *)
(* the output stream are taken not to fail.                                *)
(***************************************************************************)

\* The loop of jpret_list_find_ge.
RECURSIVE FindGeLoop(_, _, _, _)
FindGeLoop(lst, addr, start, end) ==
    IF start < end
    THEN LET mid == (start + end) \div 2
         IN  IF lst[mid + 1] < addr THEN FindGeLoop(lst, addr, mid + 1, end)
             ELSE IF lst[mid + 1] > addr THEN FindGeLoop(lst, addr, start, mid)
             ELSE mid
    ELSE end

\* jpret_list_find_ge that always answers 0.
jpret_list_find_ge_Zero(lst, addr) == 0
jpret_list_find_ge(lst, addr) ==
    IF Len(lst) = 0 THEN 0 ELSE FindGeLoop(lst, addr, 0, Len(lst))

\* jpret_list_find that finds nothing.
jpret_list_find_Never(lst, addr) == -1
jpret_list_find(lst, addr) ==
    With(jpret_list_find_ge(lst, addr), LAMBDA ge :
       IF ge < Len(lst) /\ lst[ge + 1] = addr THEN ge ELSE -1)

\* jpret_list_add that stores every new element at index 0.
jpret_list_add_AtFront(lst, addr) ==
    With(jpret_list_find_ge(lst, addr % 65536), LAMBDA pos :
       IF pos < Len(lst) /\ lst[pos + 1] = addr % 65536 THEN lst
       ELSE <<addr % 65536>> \o lst)
\* jpret_list_add: the list afterwards. addr is a uint16_t.
jpret_list_add(lst, addr) ==
    With(jpret_list_find_ge(lst, addr % 65536), LAMBDA pos :
       IF pos < Len(lst) /\ lst[pos + 1] = addr % 65536 THEN lst
       ELSE SubSeq(lst, 1, pos) \o <<addr % 65536>> \o SubSeq(lst, pos + 1, Len(lst)))

\* jpret_list_remove: the list afterwards.
jpret_list_remove(lst, idx) ==
    IF idx >= Len(lst) THEN lst
    ELSE SubSeq(lst, 1, idx) \o SubSeq(lst, idx + 2, Len(lst))

jpret_list_in_data(lst, addr) ==
    With(jpret_list_find_ge(lst, addr), LAMBDA pos :
       IF pos = 0 THEN FALSE
       ELSE /\ lst[pos] % 2 = 1
            /\ (pos = Len(lst) \/ addr < lst[pos + 1]))

\* chip8_instruction_uses_addr: the instruction takes an address operand.
chip8_instruction_uses_addr(instr) == instr.op \in AddrOps

\* disasm->mem[i]. The byte at proglen, which the code reads when proglen
\* is odd, lies outside the buffer: it is whatever the build left there.
MemByte(file, i) == IF i < Len(file.mem) THEN file.mem[i + 1] ELSE file.past

\* ((uint16_t)disasm->mem[pc] << 8) + disasm->mem[pc + 1]
OpcodeAt(file, pc) == MemByte(file, pc) * 256 + MemByte(file, pc + 1)

\* The instruction decoded at pc. Its op and addr do not depend on what the
\* uninitialised vx and vy hold.
InstructionAt(file, pc) ==
    chip8_instruction_from_opcode(OpcodeAt(file, pc), file.shift_quirks, 0)

\* The inner loop of chip8disasm_populate_lists, from pc on. st holds the
\* lists and retval; walked, decoded and pushed remember the starts of the
\* walks, the offsets decoded and the offsets given to the list of starts.
RECURSIVE Walk(_, _, _, _)
Walk(file, st, pc, after_skip) ==
    IF pc >= Len(file.mem) THEN st
    ELSE With(InstructionAt(file, pc), LAMBDA inst :
       LET target == (inst.u - CHIP8_PROG_START) % 65536
           jump(s) == [s EXCEPT !.jpret_list = jpret_list_add(@, pc + 1 - (pc % 2))]
           start(s) == [s EXCEPT !.starts = jpret_list_add(@, target),
                                 !.pushed = @ \cup {target}]
           fail(s) == [s EXCEPT !.retval = 1]
           on(s) ==
               CASE inst.op \in {"OP_RET", "OP_EXIT", "OP_JP_V0"} ->
                      IF ~after_skip THEN jump(s) ELSE Walk(file, s, pc + 2, FALSE)
                 [] inst.op = "OP_CALL" ->
                      IF inst.u % 2 # 0 THEN fail(s)
                      ELSE Walk(file, start(s), pc + 2, FALSE)
                 [] inst.op = "OP_JP" ->
                      IF inst.u % 2 # 0 THEN fail(s)
                      ELSE IF ~after_skip THEN jump(start(s))
                      ELSE Walk(file, start(s), pc + 2, FALSE)
                 [] inst.op \in {"OP_SE_BYTE", "OP_SNE_BYTE", "OP_SE_REG", "OP_SNE_REG",
                                 "OP_SKP", "OP_SKNP"} ->
                      Walk(file, s, pc + 2, TRUE)
                 [] OTHER -> Walk(file, s, pc + 2, FALSE)
       IN  on([st EXCEPT
                 !.decoded = @ \cup {pc},
                 !.label_list =
                     IF /\ chip8_instruction_uses_addr(inst)
                        /\ inst.u >= CHIP8_PROG_START
                        /\ inst.u - CHIP8_PROG_START < Len(file.mem)
                     THEN jpret_list_add(@, inst.u - CHIP8_PROG_START)
                     ELSE @]))

\* The outer loop cut short: it stops after the first start.
Starts_OneTurn(file, st) ==
    With(st.starts[Len(st.starts)], LAMBDA pc :
       With([st EXCEPT !.starts = jpret_list_remove(@, Len(@) - 1)], LAMBDA popped :
          [Walk(file, [popped EXCEPT !.jpret_list = jpret_list_add(@, pc),
                                     !.walked = Append(@, pc)],
                pc, FALSE) EXCEPT !.starts = <<>>]))
\* The outer loop of chip8disasm_populate_lists.
RECURSIVE Starts(_, _)
Starts(file, st) ==
    IF st.retval # 0 \/ Len(st.starts) = 0 THEN st
    ELSE With(st.starts[Len(st.starts)], LAMBDA pc :
       With([st EXCEPT !.starts = jpret_list_remove(@, Len(@) - 1)], LAMBDA popped :
          IF jpret_list_find(popped.jpret_list, pc) # -1 THEN Starts(file, popped)
          ELSE Starts(file,
                      Walk(file, [popped EXCEPT !.jpret_list = jpret_list_add(@, pc),
                                                !.walked = Append(@, pc)],
                           pc, FALSE))))

chip8disasm_populate_lists(file) ==
    Starts(file, [jpret_list |-> <<>>, label_list |-> <<>>, starts |-> <<0>>, retval |-> 0,
                  walked |-> <<>>, decoded |-> {}, pushed |-> {0}])

\* chip8disasm_from_file: null tells that NULL was returned.
chip8disasm_from_file(file) ==
    IF Len(file.mem) > CHIP8_PROG_SIZE
    THEN [null |-> TRUE, lists |-> <<>>]
    ELSE With(chip8disasm_populate_lists(file), LAMBDA st :
            [null |-> st.retval # 0, lists |-> st])

\* chip8disasm_dump: the lines written, one for each turn of the loop.
\* label tells that the line starts with a label, data that it is a DW,
\* operand is the offset named by the label given as the operand, or -1.
chip8disasm_dump(file, lists) ==
    [n \in 1..((Len(file.mem) + 1) \div 2) |->
        With(2 * (n - 1), LAMBDA i :
           With(InstructionAt(file, i), LAMBDA instr :
              LET data == jpret_list_in_data(lists.jpret_list, i)
                  use_addr ==
                      /\ chip8_instruction_uses_addr(instr)
                      /\ jpret_list_find(lists.label_list,
                                         (instr.u - CHIP8_PROG_START) % 65536) # -1
              IN  [offset |-> i,
                   label |-> jpret_list_find(lists.label_list, i) # -1,
                   data |-> data,
                   opcode |-> OpcodeAt(file, i),
                   operand |-> IF ~data /\ use_addr THEN instr.u - CHIP8_PROG_START
                               ELSE -1]))]

(***************************************************************************)
(* The disassembler driven as chip8disasm does: chip8disasm_from_file on a *)
(* file, then chip8disasm_dump when it gave a disassembler. The file is up *)
(* to MaxProgWords words, with one more byte or not.                       *)
(***************************************************************************)
MaxProgWords == 4

\* CLS, RET, JP #000, JP #200, JP #202, JP #203, CALL #204, SE V0, #00,
\* LD I, #203, LD I, #206 and JP V0, #202.
ProgWords == {224, 238, 4096, 4608, 4610, 4611, 8708, 12288, 41475, 41478, 45570}

\* The last byte of a file of odd length (the high byte of a JP), and the
\* byte that may follow the buffer in memory.
LastBytes == {18}
PastBytes == {0, 3}

\* The bytes of a sequence of words, high byte first.
RECURSIVE BytesOfWords(_)
BytesOfWords(words) ==
    IF words = <<>> THEN <<>>
    ELSE <<Head(words) \div 256, Head(words) % 256>> \o BytesOfWords(Tail(words))

\* The file that holds the words and then the bytes of last, with past after
\* the buffer in memory.
File(words, last, past) ==
    [mem |-> BytesOfWords(words) \o last, past |-> past, shift_quirks |-> FALSE]

DisInit ==
    /\ CodecIdle
    /\ EvalIdle
    /\ AsmIdle
    /\ TableIdle
    /\ SessIdle
    /\ ListIdle
    /\ WalkIdle
    /\ SourceIdle
    /\ StackIdle
    /\ OrderIdle
    /\ dphase = "file"
    /\ \E n \in 0..MaxProgWords :
          \E words \in [1..n -> ProgWords], last \in {<<>>} \cup {<<b>> : b \in LastBytes},
             past \in PastBytes :
             /\ last = <<>> => past = 0
             /\ dfile = File(words, last, past)
    /\ ddisasm = [null |-> TRUE, lists |-> <<>>]
    /\ ddump = <<>>

\* chip8disasm_from_file.
DisFromFile ==
    /\ dphase = "file"
    /\ ddisasm' = chip8disasm_from_file(dfile)
    /\ dphase' = IF ddisasm'.null THEN "failed" ELSE "analysed"
    /\ UNCHANGED <<dfile, ddump, codecVars, evalVars, asmVars, tableVars, sessVars, listVars, walkVars, sourceVars, stackVars, orderVars>>

\* chip8disasm_dump.
DisDump ==
    /\ dphase = "analysed"
    /\ ddump' = chip8disasm_dump(dfile, ddisasm.lists)
    /\ dphase' = "dumped"
    /\ UNCHANGED <<dfile, ddisasm, codecVars, evalVars, asmVars, tableVars, sessVars, listVars, walkVars, sourceVars, stackVars, orderVars>>

DisNext == DisFromFile \/ DisDump

SpecDisasm == DisInit /\ [][DisNext]_vars

\* The offsets recorded as jump points and as return points.
Recorded == {ddisasm.lists.jpret_list[k] : k \in 1..Len(ddisasm.lists.jpret_list)}
JumpPoints == {x - 1 : x \in {y \in Recorded : y % 2 = 1}}
ReturnPoints == {x \in Recorded : x % 2 = 0}

\* Offset a lies strictly above some jump point and strictly below the next
\* return point above that jump point.
Between(a) ==
    \E j \in JumpPoints : j < a /\ ~\E r \in ReturnPoints : j < r /\ r <= a

\* C11: the dump prints the slot at offset a as DW exactly when a lies
\* strictly above some recorded jump point and strictly below the next
\* return point above that jump point; a slot that holds a recorded jump
\* and a slot at a return point are printed as code.
C11_DataBetweenJumpAndReturn ==
    dphase = "dumped" =>
        \A n \in 1..Len(ddump) :
           /\ ddump[n].data = Between(ddump[n].offset)
           /\ ddump[n].offset \in JumpPoints \cup ReturnPoints => ~ddump[n].data

\* C12: whatever the file holds, a JP or CALL with an odd address or a walk
\* that leaves the buffer included, chip8disasm_from_file gives a
\* disassembler, with every start of the worklist taken, and the dump has
\* one line for every 2-byte slot of the buffer.
C12_NeverAborts ==
    dphase # Idle =>
        /\ dphase # "failed"
        /\ dphase \in {"analysed", "dumped"} => ddisasm.lists.starts = <<>>
        /\ dphase = "dumped" =>
              \A slot \in 0..(Len(dfile.mem) \div 2 - 1) :
                 Cardinality({n \in 1..Len(ddump) : ddump[n].offset = 2 * slot}) = 1

C33_ReachableIsCode ==
    dphase = "dumped" =>
        \A n \in 1..Len(ddump) :
           ddump[n].offset \in ddisasm.lists.decoded => ~ddump[n].data

\* The offsets of the bytes that the walks and the dump read: both bytes of
\* every slot decoded and of every slot printed.
ReadByWalks == UNION {{pc, pc + 1} : pc \in ddisasm.lists.decoded}
ReadByDump == UNION {{ddump[n].offset, ddump[n].offset + 1} : n \in 1..Len(ddump)}

\* C36: whatever the length of the file, the analysis and the dump read
\* only bytes at offsets below that length.
C36_ReadsStayInBuffer ==
    /\ dphase \in {"failed", "analysed", "dumped"} =>
           \A i \in ReadByWalks : i < Len(dfile.mem)
    /\ dphase = "dumped" =>
           \A i \in ReadByDump : i < Len(dfile.mem)

\* C37: a label that the dump prints as the operand of an instruction is
\* printed as the label of a line of the same dump.
C37_OperandLabelsAreDefined ==
    dphase = "dumped" =>
        \A n \in 1..Len(ddump) :
           ddump[n].operand # -1 =>
              \E m \in 1..Len(ddump) :
                 ddump[m].label /\ ddump[m].offset = ddump[n].operand

(***************************************************************************)
(* Claims on the conditional directives, over the lines of SpecAsm.        *)
(***************************************************************************)

\* The three fields that hold the state of the conditionals.
IfState(chipasm) == <<chipasm.if_level, chipasm.if_skip_else, chipasm.if_skip_endif>>

\* C24: an ELSE or ENDIF given while if_level is 0 returns an error and
\* leaves if_level, if_skip_else and if_skip_endif as they were; if_level
\* is never negative.
C24_UnexpectedElseEndif ==
    aphase # Idle =>
        /\ asm.if_level >= 0
        /\ (Returned /\ LastLine.kind \in {"else", "endif"} /\ abefore.if_level = 0) =>
              /\ LastRet = 1
              /\ IfState(asm) = IfState(abefore)

\* An ENDIF has been refused at level 0 after a block was opened and closed.
C24_Witness ==
    /\ Returned
    /\ LastLine.kind = "endif"
    /\ abefore.if_level = 0
    /\ LastRet = 1
    /\ \E k \in 1..(Len(alines) - 1) : alines[k].kind = "ifdef" /\ arets[k] = 0

\* C26: whatever lines were given, if_level is not negative, at most one of
\* if_skip_else and if_skip_endif is not zero, and the one that is not zero
\* lies between 1 and if_level.
C26_MarkersWithinLevel ==
    aphase # Idle =>
        /\ asm.if_level >= 0
        /\ asm.if_skip_else = 0 \/ asm.if_skip_endif = 0
        /\ asm.if_skip_else \in 0..asm.if_level
        /\ asm.if_skip_endif \in 0..asm.if_level

\* Lines that are not well nested were given, and a block within a skipped
\* branch is open: the marker is below if_level.
C26_Witness ==
    /\ aphase = "lines"
    /\ asuite = "cond"
    /\ ~ProperlyNested(Len(alines))
    /\ asm.if_level = 2
    /\ asm.if_skip_endif = 1

(***************************************************************************)
(* A jpret_list on its own: jpret_list_add and jpret_list_find_ge called   *)
(* with any values, in any order, on a list that starts empty.             *)
(***************************************************************************)
MaxListCalls == 4

\* The values given: the least and the greatest uint16_t, and neighbours.
ListValues == {0, 1, 2, 3, 65534, 65535}

ListInit ==
    /\ CodecIdle
    /\ EvalIdle
    /\ AsmIdle
    /\ TableIdle
    /\ SessIdle
    /\ DisIdle
    /\ WalkIdle
    /\ SourceIdle
    /\ StackIdle
    /\ OrderIdle
    /\ jlist = <<>>
    /\ jcalls = <<>>

\* jpret_list_add(lst, addr).
ListAdd ==
    /\ Len(jcalls) < MaxListCalls
    /\ \E addr \in ListValues :
          /\ jlist' = jpret_list_add(jlist, addr)
          /\ jcalls' = Append(jcalls, [op |-> "add", addr |-> addr, ret |-> 0,
                                       lst |-> jlist'])
    /\ UNCHANGED <<codecVars, evalVars, asmVars, tableVars, sessVars, disVars, walkVars, sourceVars, stackVars, orderVars>>

\* jpret_list_find_ge(lst, addr).
ListFindGe ==
    /\ Len(jcalls) < MaxListCalls
    /\ \E addr \in ListValues :
          jcalls' = Append(jcalls, [op |-> "find_ge", addr |-> addr,
                                    ret |-> jpret_list_find_ge(jlist, addr),
                                    lst |-> jlist])
    /\ UNCHANGED <<jlist, codecVars, evalVars, asmVars, tableVars, sessVars, disVars, walkVars, sourceVars, stackVars, orderVars>>

ListNext == ListAdd \/ ListFindGe

SpecList == ListInit /\ [][ListNext]_vars

\* A sequence of numbers that ascends strictly.
Ascending(lst) == \A k \in 1..(Len(lst) - 1) : lst[k] < lst[k + 1]

\* The number of elements of a list that are below addr.
Below(lst, addr) == Cardinality({k \in 1..Len(lst) : lst[k] < addr})

\* The values of the add calls among the first n calls.
Inserted(n) == {jcalls[k].addr : k \in {j \in 1..n : jcalls[j].op = "add"}}

\* C28: after any insertions the list ascends strictly, so it holds no
\* value twice, and it holds the values inserted; jpret_list_find_ge gives
\* the index of the first element that is not below the value asked for,
\* which is the length of the list when there is none.
C28_SortedListAndFindGe ==
    /\ Ascending(jlist)
    /\ {jlist[k] : k \in 1..Len(jlist)} = Inserted(Len(jcalls))
    /\ \A n \in 1..Len(jcalls) :
          jcalls[n].op = "find_ge" =>
             /\ jcalls[n].ret = Below(jcalls[n].lst, jcalls[n].addr)
             /\ jcalls[n].ret \in 0..Len(jcalls[n].lst)
             /\ \A k \in 1..Len(jcalls[n].lst) :
                   jcalls[n].lst[k] >= jcalls[n].addr <=> k > jcalls[n].ret

\* Three values were inserted in descending order, one of them twice, and a
\* jpret_list_find_ge for a value above all of them gave the length.
C28_Witness ==
    /\ Len(jcalls) = MaxListCalls
    /\ jcalls[1].op = "add"
    /\ jcalls[2].op = "add"
    /\ jcalls[3].op = "add"
    /\ jcalls[1].addr > jcalls[2].addr
    /\ jcalls[3].addr = jcalls[1].addr
    /\ jcalls[4].op = "find_ge"
    /\ jcalls[4].ret = 2
    /\ Len(jlist) = 2

(***************************************************************************)
(* chip8disasm_populate_lists step by step: one action for a turn of the   *)
(* while loop up to the for loop, one for a turn of the for loop, one for  *)
(* the return. wtrace remembers, for every instruction decoded, the walk   *)
(* it belongs to, its offset, its operation, after_skip as the switch      *)
(* found it, its operand u, and whether the turn recorded a jump point and  *)
(* left the for loop.                                                      *)
(***************************************************************************)
MaxWalkWords == 3

SkipOps == {"OP_SE_BYTE", "OP_SNE_BYTE", "OP_SE_REG", "OP_SNE_REG", "OP_SKP", "OP_SKNP"}

WalkInit ==
    /\ CodecIdle
    /\ EvalIdle
    /\ AsmIdle
    /\ TableIdle
    /\ SessIdle
    /\ DisIdle
    /\ ListIdle
    /\ SourceIdle
    /\ StackIdle
    /\ OrderIdle
    /\ wphase = "pop"
    /\ \E n \in 0..MaxWalkWords :
          \E words \in [1..n -> ProgWords],
             last \in {<<>>} \cup {<<b>> : b \in LastBytes},
             past \in PastBytes :
             /\ last = <<>> => past = 0
             /\ wfile = File(words, last, past)
    /\ wlists = [jpret_list |-> <<>>, label_list |-> <<>>,
                 starts |-> jpret_list_add(<<>>, 0)]
    /\ wpc = 0
    /\ wafter = FALSE
    /\ wwalked = <<>>
    /\ wtrace = <<>>

\* A turn of the while loop, up to the for loop.
WalkPop ==
    /\ wphase = "pop"
    /\ Len(wlists.starts) # 0
    /\ With(wlists.starts[Len(wlists.starts)], LAMBDA pc :
          /\ wpc' = pc
          /\ wafter' = FALSE
          /\ IF jpret_list_find(wlists.jpret_list, pc) # -1
             THEN /\ wlists' = [wlists EXCEPT
                                  !.starts = jpret_list_remove(@, Len(@) - 1)]
                  /\ wphase' = "pop"
                  /\ wwalked' = wwalked
             ELSE /\ wlists' = [wlists EXCEPT
                                  !.starts = jpret_list_remove(@, Len(@) - 1),
                                  !.jpret_list = jpret_list_add(@, pc)]
                  /\ wphase' = "walk"
                  /\ wwalked' = Append(wwalked, pc))
    /\ UNCHANGED <<wfile, wtrace, codecVars, evalVars, asmVars, tableVars, sessVars, disVars, listVars, sourceVars, stackVars, orderVars>>

\* A turn of the for loop.
WalkStep ==
    /\ wphase = "walk"
    /\ IF wpc >= Len(wfile.mem)
       THEN /\ wphase' = "pop"
            /\ UNCHANGED <<wlists, wpc, wafter, wtrace>>
       ELSE With(InstructionAt(wfile, wpc), LAMBDA inst :
          LET target == (inst.u - CHIP8_PROG_START) % 65536
              labelled ==
                  [wlists EXCEPT
                     !.label_list =
                         IF /\ chip8_instruction_uses_addr(inst)
                            /\ inst.u >= CHIP8_PROG_START
                            /\ inst.u - CHIP8_PROG_START < Len(wfile.mem)
                         THEN jpret_list_add(@, inst.u - CHIP8_PROG_START)
                         ELSE @]
              jump(l) == [l EXCEPT !.jpret_list = jpret_list_add(@, wpc + 1 - (wpc % 2))]
              start(l) == [l EXCEPT !.starts = jpret_list_add(@, target)]
              event(ends) == [walk |-> Len(wwalked), pc |-> wpc, op |-> inst.op,
                              u |-> inst.u, after |-> wafter, ends |-> ends]
              fail == /\ wphase' = "failed"
                      /\ wlists' = [labelled EXCEPT !.starts = <<>>]
                      /\ wtrace' = Append(wtrace, event(FALSE))
                      /\ UNCHANGED <<wpc, wafter>>
              leave(l) == /\ wphase' = "pop"
                          /\ wlists' = jump(l)
                          /\ wtrace' = Append(wtrace, event(TRUE))
                          /\ UNCHANGED <<wpc, wafter>>
              on(l, after) == /\ wphase' = "walk"
                              /\ wlists' = l
                              /\ wtrace' = Append(wtrace, event(FALSE))
                              /\ wpc' = (wpc + 2) % 65536
                              /\ wafter' = after
          IN  CASE inst.op \in {"OP_RET", "OP_EXIT", "OP_JP_V0"} ->
                     IF ~wafter THEN leave(labelled) ELSE on(labelled, FALSE)
                [] inst.op = "OP_CALL" ->
                     IF inst.u % 2 # 0 THEN fail ELSE on(start(labelled), FALSE)
                [] inst.op = "OP_JP" ->
                     IF inst.u % 2 # 0 THEN fail
                     ELSE IF ~wafter THEN leave(start(labelled))
                     ELSE on(start(labelled), FALSE)
                [] inst.op \in SkipOps -> on(labelled, TRUE)
                [] OTHER -> on(labelled, FALSE))
    /\ UNCHANGED <<wfile, wwalked, codecVars, evalVars, asmVars, tableVars, sessVars, disVars, listVars, sourceVars, stackVars, orderVars>>

\* The while loop ends: jpret_list_clear(&starts) and return retval.
WalkReturn ==
    /\ wphase = "pop"
    /\ Len(wlists.starts) = 0
    /\ wphase' = "done"
    /\ UNCHANGED <<wfile, wlists, wpc, wafter, wwalked, wtrace, codecVars, evalVars, asmVars, tableVars, sessVars, disVars, listVars, sourceVars, stackVars, orderVars>>

WalkNext == WalkPop \/ WalkStep \/ WalkReturn

SpecWalk == WalkInit /\ [][WalkNext]_vars

\* The loops are not suspended: a turn that can be taken is taken.
SpecWalkLive == SpecWalk /\ WF_vars(WalkNext)

\* No start was walked from twice.
NoStartTwice ==
    \A i \in 1..Len(wwalked) : \A j \in 1..Len(wwalked) : i # j => wwalked[i] # wwalked[j]

\* C29: whatever the file holds, the analysis comes to its end with the
\* list of starts empty, and at no time has a start been walked from twice.
C29_AnalysisTerminates ==
    /\ [](NoStartTwice)
    /\ <>(wphase \in {"done", "failed"} /\ wlists.starts = <<>>)

\* The analysis has come to its end after a JP to the start of its own
\* walk, which was taken from the list of starts and not walked again.
C29_Witness ==
    /\ wphase = "done"
    /\ \E k \in 1..Len(wtrace) :
          /\ wtrace[k].op = "OP_JP"
          /\ wtrace[k].ends
          /\ wtrace[k].u - CHIP8_PROG_START = wwalked[wtrace[k].walk]
          /\ wtrace[k].pc > wwalked[wtrace[k].walk]

\* Instruction k of wtrace is not the first of its walk and the one decoded
\* before it is a conditional skip.
FollowsSkip(k) ==
    /\ k > 1
    /\ wtrace[k - 1].walk = wtrace[k].walk
    /\ wtrace[k - 1].op \in SkipOps

\* Instruction k of wtrace is the first of its walk.
FirstOfWalk(k) == k = 1 \/ wtrace[k - 1].walk # wtrace[k].walk

\* C30: a RET, EXIT, JP or JP V0 is recorded as a jump point and ends its
\* walk exactly when the instruction decoded before it in the walk is not a
\* conditional skip; when it is, the walk goes on at the next instruction
\* with after_skip cleared; the first instruction of a walk finds after_skip
\* cleared.
C30_JumpPointUnlessAfterSkip ==
    wphase # Idle =>
        \A k \in 1..Len(wtrace) :
           /\ wtrace[k].op \in {"OP_RET", "OP_EXIT", "OP_JP", "OP_JP_V0"} =>
                 /\ wtrace[k].ends <=> ~FollowsSkip(k)
                 /\ wtrace[k].ends =>
                       wtrace[k].pc + 1 \in {wlists.jpret_list[i] :
                                                i \in 1..Len(wlists.jpret_list)}
                 /\ FollowsSkip(k) =>
                       IF k < Len(wtrace) /\ wtrace[k + 1].walk = wtrace[k].walk
                       THEN /\ wtrace[k + 1].pc = wtrace[k].pc + 2
                            /\ ~wtrace[k + 1].after
                       ELSE IF k = Len(wtrace) /\ wphase = "walk"
                               /\ Len(wwalked) = wtrace[k].walk
                       THEN wpc = wtrace[k].pc + 2 /\ ~wafter
                       ELSE wtrace[k].pc + 2 >= Len(wfile.mem)
           /\ FirstOfWalk(k) => ~wtrace[k].after

(***************************************************************************)
(* Source texts: one assembler given lines of one suite by                 *)
(* chip8asm_process_line, whatever they return, and then chip8asm_emit     *)
(* with a new program. A line is its text with what a reader sees in it:   *)
(* the text with its mnemonic, directive, register names and special       *)
(* operands in upper case, the labels it starts with, whether it is one of *)
(* IFDEF, IFNDEF, ELSE and ENDIF, whether its operation has the number of  *)
(* operands its grammar allows, the name it refers to, the name it         *)
(* defines, and its mnemonic and two operands when it is an LD, SE, SNE or *)
(* ADD.                                                                    *)
(***************************************************************************)
MaxSourceLines == 3

SourceSuites == {"skip", "arity", "case", "label", "forms", "regs", "order"}

SourceLines(suite) ==
    CASE suite = "skip" ->
        {
         [text |-> <<"I", "F", "D", "E", "F", " ", "U">>, upper |-> <<"I", "F", "D", "E", "F", " ", "U">>, labels |-> <<>>, directive |-> TRUE, arity_ok |-> TRUE, ref |-> <<>>, def |-> <<>>, mn |-> "", o1 |-> "", o2 |-> ""],
         [text |-> <<"I", "F", "N", "D", "E", "F", " ", "U">>, upper |-> <<"I", "F", "N", "D", "E", "F", " ", "U">>, labels |-> <<>>, directive |-> TRUE, arity_ok |-> TRUE, ref |-> <<>>, def |-> <<>>, mn |-> "", o1 |-> "", o2 |-> ""],
         [text |-> <<"E", "L", "S", "E">>, upper |-> <<"E", "L", "S", "E">>, labels |-> <<>>, directive |-> TRUE, arity_ok |-> TRUE, ref |-> <<>>, def |-> <<>>, mn |-> "", o1 |-> "", o2 |-> ""],
         [text |-> <<"E", "N", "D", "I", "F">>, upper |-> <<"E", "N", "D", "I", "F">>, labels |-> <<>>, directive |-> TRUE, arity_ok |-> TRUE, ref |-> <<>>, def |-> <<>>, mn |-> "", o1 |-> "", o2 |-> ""],
         [text |-> <<"L", ":">>, upper |-> <<"L", ":">>, labels |-> <<<<"L">>>>, directive |-> FALSE, arity_ok |-> TRUE, ref |-> <<>>, def |-> <<>>, mn |-> "", o1 |-> "", o2 |-> ""],
         [text |-> <<"X", " ", "=", " ", "1">>, upper |-> <<"X", " ", "=", " ", "1">>, labels |-> <<>>, directive |-> FALSE, arity_ok |-> TRUE, ref |-> <<>>, def |-> <<"X">>, mn |-> "", o1 |-> "", o2 |-> ""],
         [text |-> <<"D", "E", "F", "I", "N", "E", " ", "D">>, upper |-> <<"D", "E", "F", "I", "N", "E", " ", "D">>, labels |-> <<>>, directive |-> FALSE, arity_ok |-> TRUE, ref |-> <<>>, def |-> <<"D">>, mn |-> "", o1 |-> "", o2 |-> ""],
         [text |-> <<"D", "B", " ", "1">>, upper |-> <<"D", "B", " ", "1">>, labels |-> <<>>, directive |-> FALSE, arity_ok |-> TRUE, ref |-> <<>>, def |-> <<>>, mn |-> "", o1 |-> "", o2 |-> ""],
         [text |-> <<"M", ":", " ", "C", "L", "S">>, upper |-> <<"M", ":", " ", "C", "L", "S">>, labels |-> <<<<"M">>>>, directive |-> FALSE, arity_ok |-> TRUE, ref |-> <<>>, def |-> <<>>, mn |-> "", o1 |-> "", o2 |-> ""]
        }
      [] suite = "arity" ->
        {
         [text |-> <<"C", "L", "S", " ", "1">>, upper |-> <<"C", "L", "S", " ", "1">>, labels |-> <<>>, directive |-> FALSE, arity_ok |-> FALSE, ref |-> <<>>, def |-> <<>>, mn |-> "", o1 |-> "", o2 |-> ""],
         [text |-> <<"R", "E", "T", " ", "1">>, upper |-> <<"R", "E", "T", " ", "1">>, labels |-> <<>>, directive |-> FALSE, arity_ok |-> FALSE, ref |-> <<>>, def |-> <<>>, mn |-> "", o1 |-> "", o2 |-> ""],
         [text |-> <<"S", "C", "D">>, upper |-> <<"S", "C", "D">>, labels |-> <<>>, directive |-> FALSE, arity_ok |-> FALSE, ref |-> <<>>, def |-> <<>>, mn |-> "", o1 |-> "", o2 |-> ""],
         [text |-> <<"C", "A", "L", "L">>, upper |-> <<"C", "A", "L", "L">>, labels |-> <<>>, directive |-> FALSE, arity_ok |-> FALSE, ref |-> <<>>, def |-> <<>>, mn |-> "", o1 |-> "", o2 |-> ""],
         [text |-> <<"C", "A", "L", "L", " ", "1", ",", " ", "2">>, upper |-> <<"C", "A", "L", "L", " ", "1", ",", " ", "2">>, labels |-> <<>>, directive |-> FALSE, arity_ok |-> FALSE, ref |-> <<>>, def |-> <<>>, mn |-> "", o1 |-> "", o2 |-> ""],
         [text |-> <<"O", "R", " ", "V", "0">>, upper |-> <<"O", "R", " ", "V", "0">>, labels |-> <<>>, directive |-> FALSE, arity_ok |-> FALSE, ref |-> <<>>, def |-> <<>>, mn |-> "", o1 |-> "", o2 |-> ""],
         [text |-> <<"D", "R", "W", " ", "V", "0", ",", " ", "V", "1">>, upper |-> <<"D", "R", "W", " ", "V", "0", ",", " ", "V", "1">>, labels |-> <<>>, directive |-> FALSE, arity_ok |-> FALSE, ref |-> <<>>, def |-> <<>>, mn |-> "", o1 |-> "", o2 |-> ""],
         [text |-> <<"S", "K", "P">>, upper |-> <<"S", "K", "P">>, labels |-> <<>>, directive |-> FALSE, arity_ok |-> FALSE, ref |-> <<>>, def |-> <<>>, mn |-> "", o1 |-> "", o2 |-> ""],
         [text |-> <<"S", "E", " ", "V", "0">>, upper |-> <<"S", "E", " ", "V", "0">>, labels |-> <<>>, directive |-> FALSE, arity_ok |-> FALSE, ref |-> <<>>, def |-> <<>>, mn |-> "", o1 |-> "", o2 |-> ""],
         [text |-> <<"S", "N", "E", " ", "V", "0", ",", " ", "1", ",", " ", "2">>, upper |-> <<"S", "N", "E", " ", "V", "0", ",", " ", "1", ",", " ", "2">>, labels |-> <<>>, directive |-> FALSE, arity_ok |-> FALSE, ref |-> <<>>, def |-> <<>>, mn |-> "", o1 |-> "", o2 |-> ""],
         [text |-> <<"L", "D", " ", "V", "0">>, upper |-> <<"L", "D", " ", "V", "0">>, labels |-> <<>>, directive |-> FALSE, arity_ok |-> FALSE, ref |-> <<>>, def |-> <<>>, mn |-> "", o1 |-> "", o2 |-> ""],
         [text |-> <<"L", "D", " ", "V", "0", ",", " ", "1", ",", " ", "2">>, upper |-> <<"L", "D", " ", "V", "0", ",", " ", "1", ",", " ", "2">>, labels |-> <<>>, directive |-> FALSE, arity_ok |-> FALSE, ref |-> <<>>, def |-> <<>>, mn |-> "", o1 |-> "", o2 |-> ""],
         [text |-> <<"A", "D", "D", " ", "V", "0">>, upper |-> <<"A", "D", "D", " ", "V", "0">>, labels |-> <<>>, directive |-> FALSE, arity_ok |-> FALSE, ref |-> <<>>, def |-> <<>>, mn |-> "", o1 |-> "", o2 |-> ""],
         [text |-> <<"S", "H", "R", " ", "V", "0", ",", " ", "V", "1">>, upper |-> <<"S", "H", "R", " ", "V", "0", ",", " ", "V", "1">>, labels |-> <<>>, directive |-> FALSE, arity_ok |-> FALSE, ref |-> <<>>, def |-> <<>>, mn |-> "", o1 |-> "", o2 |-> ""],
         [text |-> <<"S", "H", "L">>, upper |-> <<"S", "H", "L">>, labels |-> <<>>, directive |-> FALSE, arity_ok |-> FALSE, ref |-> <<>>, def |-> <<>>, mn |-> "", o1 |-> "", o2 |-> ""],
         [text |-> <<"J", "P">>, upper |-> <<"J", "P">>, labels |-> <<>>, directive |-> FALSE, arity_ok |-> FALSE, ref |-> <<>>, def |-> <<>>, mn |-> "", o1 |-> "", o2 |-> ""],
         [text |-> <<"J", "P", " ", "V", "1", ",", " ", "2">>, upper |-> <<"J", "P", " ", "V", "1", ",", " ", "2">>, labels |-> <<>>, directive |-> FALSE, arity_ok |-> FALSE, ref |-> <<>>, def |-> <<>>, mn |-> "", o1 |-> "", o2 |-> ""],
         [text |-> <<"J", "P", " ", "1", ",", " ", "2", ",", " ", "3">>, upper |-> <<"J", "P", " ", "1", ",", " ", "2", ",", " ", "3">>, labels |-> <<>>, directive |-> FALSE, arity_ok |-> FALSE, ref |-> <<>>, def |-> <<>>, mn |-> "", o1 |-> "", o2 |-> ""],
         [text |-> <<"D", "B">>, upper |-> <<"D", "B">>, labels |-> <<>>, directive |-> FALSE, arity_ok |-> FALSE, ref |-> <<>>, def |-> <<>>, mn |-> "", o1 |-> "", o2 |-> ""],
         [text |-> <<"D", "B", " ", "1", ",", " ", "2">>, upper |-> <<"D", "B", " ", "1", ",", " ", "2">>, labels |-> <<>>, directive |-> FALSE, arity_ok |-> FALSE, ref |-> <<>>, def |-> <<>>, mn |-> "", o1 |-> "", o2 |-> ""],
         [text |-> <<"D", "W">>, upper |-> <<"D", "W">>, labels |-> <<>>, directive |-> FALSE, arity_ok |-> FALSE, ref |-> <<>>, def |-> <<>>, mn |-> "", o1 |-> "", o2 |-> ""],
         [text |-> <<"D", "W", " ", "1", ",", " ", "2">>, upper |-> <<"D", "W", " ", "1", ",", " ", "2">>, labels |-> <<>>, directive |-> FALSE, arity_ok |-> FALSE, ref |-> <<>>, def |-> <<>>, mn |-> "", o1 |-> "", o2 |-> ""],
         [text |-> <<"D", "E", "F", "I", "N", "E">>, upper |-> <<"D", "E", "F", "I", "N", "E">>, labels |-> <<>>, directive |-> FALSE, arity_ok |-> FALSE, ref |-> <<>>, def |-> <<>>, mn |-> "", o1 |-> "", o2 |-> ""],
         [text |-> <<"D", "E", "F", "I", "N", "E", " ", "A", ",", " ", "B">>, upper |-> <<"D", "E", "F", "I", "N", "E", " ", "A", ",", " ", "B">>, labels |-> <<>>, directive |-> FALSE, arity_ok |-> FALSE, ref |-> <<>>, def |-> <<>>, mn |-> "", o1 |-> "", o2 |-> ""],
         [text |-> <<"O", "P", "T", "I", "O", "N">>, upper |-> <<"O", "P", "T", "I", "O", "N">>, labels |-> <<>>, directive |-> FALSE, arity_ok |-> FALSE, ref |-> <<>>, def |-> <<>>, mn |-> "", o1 |-> "", o2 |-> ""],
         [text |-> <<"I", "F", "D", "E", "F">>, upper |-> <<"I", "F", "D", "E", "F">>, labels |-> <<>>, directive |-> FALSE, arity_ok |-> FALSE, ref |-> <<>>, def |-> <<>>, mn |-> "", o1 |-> "", o2 |-> ""],
         [text |-> <<"I", "F", "N", "D", "E", "F", " ", "A", ",", " ", "B">>, upper |-> <<"I", "F", "N", "D", "E", "F", " ", "A", ",", " ", "B">>, labels |-> <<>>, directive |-> FALSE, arity_ok |-> FALSE, ref |-> <<>>, def |-> <<>>, mn |-> "", o1 |-> "", o2 |-> ""],
         [text |-> <<"E", "L", "S", "E", " ", "1">>, upper |-> <<"E", "L", "S", "E", " ", "1">>, labels |-> <<>>, directive |-> FALSE, arity_ok |-> FALSE, ref |-> <<>>, def |-> <<>>, mn |-> "", o1 |-> "", o2 |-> ""],
         [text |-> <<"E", "N", "D", "I", "F", " ", "1">>, upper |-> <<"E", "N", "D", "I", "F", " ", "1">>, labels |-> <<>>, directive |-> FALSE, arity_ok |-> FALSE, ref |-> <<>>, def |-> <<>>, mn |-> "", o1 |-> "", o2 |-> ""],
         [text |-> <<"C", "L", "S">>, upper |-> <<"C", "L", "S">>, labels |-> <<>>, directive |-> FALSE, arity_ok |-> TRUE, ref |-> <<>>, def |-> <<>>, mn |-> "", o1 |-> "", o2 |-> ""],
         [text |-> <<"S", "C", "D", " ", "1">>, upper |-> <<"S", "C", "D", " ", "1">>, labels |-> <<>>, directive |-> FALSE, arity_ok |-> TRUE, ref |-> <<>>, def |-> <<>>, mn |-> "", o1 |-> "", o2 |-> ""],
         [text |-> <<"C", "A", "L", "L", " ", "1">>, upper |-> <<"C", "A", "L", "L", " ", "1">>, labels |-> <<>>, directive |-> FALSE, arity_ok |-> TRUE, ref |-> <<>>, def |-> <<>>, mn |-> "", o1 |-> "", o2 |-> ""],
         [text |-> <<"D", "R", "W", " ", "V", "0", ",", " ", "V", "1", ",", " ", "2">>, upper |-> <<"D", "R", "W", " ", "V", "0", ",", " ", "V", "1", ",", " ", "2">>, labels |-> <<>>, directive |-> FALSE, arity_ok |-> TRUE, ref |-> <<>>, def |-> <<>>, mn |-> "", o1 |-> "", o2 |-> ""],
         [text |-> <<"S", "E", " ", "V", "0", ",", " ", "1">>, upper |-> <<"S", "E", " ", "V", "0", ",", " ", "1">>, labels |-> <<>>, directive |-> FALSE, arity_ok |-> TRUE, ref |-> <<>>, def |-> <<>>, mn |-> "", o1 |-> "", o2 |-> ""],
         [text |-> <<"L", "D", " ", "V", "0", ",", " ", "1">>, upper |-> <<"L", "D", " ", "V", "0", ",", " ", "1">>, labels |-> <<>>, directive |-> FALSE, arity_ok |-> TRUE, ref |-> <<>>, def |-> <<>>, mn |-> "", o1 |-> "", o2 |-> ""],
         [text |-> <<"S", "H", "R", " ", "V", "0">>, upper |-> <<"S", "H", "R", " ", "V", "0">>, labels |-> <<>>, directive |-> FALSE, arity_ok |-> TRUE, ref |-> <<>>, def |-> <<>>, mn |-> "", o1 |-> "", o2 |-> ""],
         [text |-> <<"J", "P", " ", "1">>, upper |-> <<"J", "P", " ", "1">>, labels |-> <<>>, directive |-> FALSE, arity_ok |-> TRUE, ref |-> <<>>, def |-> <<>>, mn |-> "", o1 |-> "", o2 |-> ""],
         [text |-> <<"J", "P", " ", "V", "0", ",", " ", "2">>, upper |-> <<"J", "P", " ", "V", "0", ",", " ", "2">>, labels |-> <<>>, directive |-> FALSE, arity_ok |-> TRUE, ref |-> <<>>, def |-> <<>>, mn |-> "", o1 |-> "", o2 |-> ""],
         [text |-> <<"D", "B", " ", "1">>, upper |-> <<"D", "B", " ", "1">>, labels |-> <<>>, directive |-> FALSE, arity_ok |-> TRUE, ref |-> <<>>, def |-> <<>>, mn |-> "", o1 |-> "", o2 |-> ""],
         [text |-> <<"D", "E", "F", "I", "N", "E", " ", "A">>, upper |-> <<"D", "E", "F", "I", "N", "E", " ", "A">>, labels |-> <<>>, directive |-> FALSE, arity_ok |-> TRUE, ref |-> <<>>, def |-> <<"A">>, mn |-> "", o1 |-> "", o2 |-> ""],
         [text |-> <<"O", "P", "T", "I", "O", "N", " ", "A">>, upper |-> <<"O", "P", "T", "I", "O", "N", " ", "A">>, labels |-> <<>>, directive |-> FALSE, arity_ok |-> TRUE, ref |-> <<>>, def |-> <<>>, mn |-> "", o1 |-> "", o2 |-> ""]
        }
      [] suite = "case" ->
        {
         [text |-> <<"l", "b", "l", ":", " ", "c", "L", "s">>, upper |-> <<"l", "b", "l", ":", " ", "C", "L", "S">>, labels |-> <<<<"l", "b", "l">>>>, directive |-> FALSE, arity_ok |-> TRUE, ref |-> <<>>, def |-> <<"l", "b", "l">>, mn |-> "", o1 |-> "", o2 |-> ""],
         [text |-> <<"j", "p", " ", "l", "b", "l">>, upper |-> <<"J", "P", " ", "l", "b", "l">>, labels |-> <<>>, directive |-> FALSE, arity_ok |-> TRUE, ref |-> <<"l", "b", "l">>, def |-> <<>>, mn |-> "", o1 |-> "", o2 |-> ""],
         [text |-> <<"J", "p", " ", "L", "B", "L">>, upper |-> <<"J", "P", " ", "L", "B", "L">>, labels |-> <<>>, directive |-> FALSE, arity_ok |-> TRUE, ref |-> <<"L", "B", "L">>, def |-> <<>>, mn |-> "", o1 |-> "", o2 |-> ""],
         [text |-> <<"l", "d", " ", "v", "A", ",", " ", "[", "i", "]">>, upper |-> <<"L", "D", " ", "V", "A", ",", " ", "[", "I", "]">>, labels |-> <<>>, directive |-> FALSE, arity_ok |-> TRUE, ref |-> <<>>, def |-> <<>>, mn |-> "", o1 |-> "", o2 |-> ""],
         [text |-> <<"x", " ", "=", " ", "1">>, upper |-> <<"x", " ", "=", " ", "1">>, labels |-> <<>>, directive |-> FALSE, arity_ok |-> TRUE, ref |-> <<>>, def |-> <<"x">>, mn |-> "", o1 |-> "", o2 |-> ""],
         [text |-> <<"d", "B", " ", "x">>, upper |-> <<"D", "B", " ", "x">>, labels |-> <<>>, directive |-> FALSE, arity_ok |-> TRUE, ref |-> <<"x">>, def |-> <<>>, mn |-> "", o1 |-> "", o2 |-> ""],
         [text |-> <<"D", "b", " ", "X">>, upper |-> <<"D", "B", " ", "X">>, labels |-> <<>>, directive |-> FALSE, arity_ok |-> TRUE, ref |-> <<"X">>, def |-> <<>>, mn |-> "", o1 |-> "", o2 |-> ""],
         [text |-> <<"h", "I", "g", "H">>, upper |-> <<"H", "I", "G", "H">>, labels |-> <<>>, directive |-> FALSE, arity_ok |-> TRUE, ref |-> <<>>, def |-> <<>>, mn |-> "", o1 |-> "", o2 |-> ""]
        }
      [] suite = "label" ->
        {
         [text |-> <<"A", ":">>, upper |-> <<"A", ":">>, labels |-> <<<<"A">>>>, directive |-> FALSE, arity_ok |-> TRUE, ref |-> <<>>, def |-> <<>>, mn |-> "", o1 |-> "", o2 |-> ""],
         [text |-> <<"B", ":">>, upper |-> <<"B", ":">>, labels |-> <<<<"B">>>>, directive |-> FALSE, arity_ok |-> TRUE, ref |-> <<>>, def |-> <<>>, mn |-> "", o1 |-> "", o2 |-> ""],
         [text |-> <<"A", ":", " ", "B", ":">>, upper |-> <<"A", ":", " ", "B", ":">>, labels |-> <<<<"A">>, <<"B">>>>, directive |-> FALSE, arity_ok |-> TRUE, ref |-> <<>>, def |-> <<>>, mn |-> "", o1 |-> "", o2 |-> ""],
         [text |-> <<"B", ":", " ", "D", "B", " ", "1">>, upper |-> <<"B", ":", " ", "D", "B", " ", "1">>, labels |-> <<<<"B">>>>, directive |-> FALSE, arity_ok |-> TRUE, ref |-> <<>>, def |-> <<>>, mn |-> "", o1 |-> "", o2 |-> ""],
         [text |-> <<"D", "B", " ", "1">>, upper |-> <<"D", "B", " ", "1">>, labels |-> <<>>, directive |-> FALSE, arity_ok |-> TRUE, ref |-> <<>>, def |-> <<>>, mn |-> "", o1 |-> "", o2 |-> ""],
         [text |-> <<"X", " ", "=", " ", "1">>, upper |-> <<"X", " ", "=", " ", "1">>, labels |-> <<>>, directive |-> FALSE, arity_ok |-> TRUE, ref |-> <<>>, def |-> <<"X">>, mn |-> "", o1 |-> "", o2 |-> ""],
         [text |-> <<"C", "L", "S">>, upper |-> <<"C", "L", "S">>, labels |-> <<>>, directive |-> FALSE, arity_ok |-> TRUE, ref |-> <<>>, def |-> <<>>, mn |-> "", o1 |-> "", o2 |-> ""]
        }
      [] suite = "regs" ->
        {
         [text |-> <<"S", "E", " ", "X", ",", " ", "1">>, upper |-> <<"S", "E", " ", "X", ",", " ", "1">>, labels |-> <<>>, directive |-> FALSE, arity_ok |-> TRUE, ref |-> <<>>, def |-> <<>>, mn |-> "", o1 |-> "", o2 |-> ""],
         [text |-> <<"S", "N", "E", " ", "V", "G", ",", " ", "1">>, upper |-> <<"S", "N", "E", " ", "V", "G", ",", " ", "1">>, labels |-> <<>>, directive |-> FALSE, arity_ok |-> TRUE, ref |-> <<>>, def |-> <<>>, mn |-> "", o1 |-> "", o2 |-> ""],
         [text |-> <<"L", "D", " ", "V", "1", "0", ",", " ", "1">>, upper |-> <<"L", "D", " ", "V", "1", "0", ",", " ", "1">>, labels |-> <<>>, directive |-> FALSE, arity_ok |-> TRUE, ref |-> <<>>, def |-> <<>>, mn |-> "", o1 |-> "", o2 |-> ""],
         [text |-> <<"A", "D", "D", " ", "X", ",", " ", "1">>, upper |-> <<"A", "D", "D", " ", "X", ",", " ", "1">>, labels |-> <<>>, directive |-> FALSE, arity_ok |-> TRUE, ref |-> <<>>, def |-> <<>>, mn |-> "", o1 |-> "", o2 |-> ""],
         [text |-> <<"R", "N", "D", " ", "X", ",", " ", "1">>, upper |-> <<"R", "N", "D", " ", "X", ",", " ", "1">>, labels |-> <<>>, directive |-> FALSE, arity_ok |-> TRUE, ref |-> <<>>, def |-> <<>>, mn |-> "", o1 |-> "", o2 |-> ""],
         [text |-> <<"O", "R", " ", "X", ",", " ", "V", "1">>, upper |-> <<"O", "R", " ", "X", ",", " ", "V", "1">>, labels |-> <<>>, directive |-> FALSE, arity_ok |-> TRUE, ref |-> <<>>, def |-> <<>>, mn |-> "", o1 |-> "", o2 |-> ""],
         [text |-> <<"O", "R", " ", "V", "1", ",", " ", "X">>, upper |-> <<"O", "R", " ", "V", "1", ",", " ", "X">>, labels |-> <<>>, directive |-> FALSE, arity_ok |-> TRUE, ref |-> <<>>, def |-> <<>>, mn |-> "", o1 |-> "", o2 |-> ""],
         [text |-> <<"S", "H", "R", " ", "X">>, upper |-> <<"S", "H", "R", " ", "X">>, labels |-> <<>>, directive |-> FALSE, arity_ok |-> TRUE, ref |-> <<>>, def |-> <<>>, mn |-> "", o1 |-> "", o2 |-> ""],
         [text |-> <<"S", "K", "P", " ", "X">>, upper |-> <<"S", "K", "P", " ", "X">>, labels |-> <<>>, directive |-> FALSE, arity_ok |-> TRUE, ref |-> <<>>, def |-> <<>>, mn |-> "", o1 |-> "", o2 |-> ""],
         [text |-> <<"L", "D", " ", "D", "T", ",", " ", "X">>, upper |-> <<"L", "D", " ", "D", "T", ",", " ", "X">>, labels |-> <<>>, directive |-> FALSE, arity_ok |-> TRUE, ref |-> <<>>, def |-> <<>>, mn |-> "", o1 |-> "", o2 |-> ""],
         [text |-> <<"D", "R", "W", " ", "X", ",", " ", "V", "1", ",", " ", "1">>, upper |-> <<"D", "R", "W", " ", "X", ",", " ", "V", "1", ",", " ", "1">>, labels |-> <<>>, directive |-> FALSE, arity_ok |-> TRUE, ref |-> <<>>, def |-> <<>>, mn |-> "", o1 |-> "", o2 |-> ""],
         [text |-> <<"D", "R", "W", " ", "V", "1", ",", " ", "X", ",", " ", "1">>, upper |-> <<"D", "R", "W", " ", "V", "1", ",", " ", "X", ",", " ", "1">>, labels |-> <<>>, directive |-> FALSE, arity_ok |-> TRUE, ref |-> <<>>, def |-> <<>>, mn |-> "", o1 |-> "", o2 |-> ""],
         [text |-> <<"S", "E", " ", "v", "A", ",", " ", "1">>, upper |-> <<"S", "E", " ", "v", "A", ",", " ", "1">>, labels |-> <<>>, directive |-> FALSE, arity_ok |-> TRUE, ref |-> <<>>, def |-> <<>>, mn |-> "", o1 |-> "", o2 |-> ""],
         [text |-> <<"O", "R", " ", "V", "1", ",", " ", "V", "2">>, upper |-> <<"O", "R", " ", "V", "1", ",", " ", "V", "2">>, labels |-> <<>>, directive |-> FALSE, arity_ok |-> TRUE, ref |-> <<>>, def |-> <<>>, mn |-> "", o1 |-> "", o2 |-> ""],
         [text |-> <<"C", "L", "S">>, upper |-> <<"C", "L", "S">>, labels |-> <<>>, directive |-> FALSE, arity_ok |-> TRUE, ref |-> <<>>, def |-> <<>>, mn |-> "", o1 |-> "", o2 |-> ""]
        }
      [] suite = "order" ->
        {
         [text |-> <<"I", "F", "D", "E", "F", " ", "L">>, upper |-> <<"I", "F", "D", "E", "F", " ", "L">>, labels |-> <<>>, directive |-> TRUE, arity_ok |-> TRUE, ref |-> <<"L">>, def |-> <<>>, mn |-> "", o1 |-> "", o2 |-> ""],
         [text |-> <<"I", "F", "N", "D", "E", "F", " ", "L">>, upper |-> <<"I", "F", "N", "D", "E", "F", " ", "L">>, labels |-> <<>>, directive |-> TRUE, arity_ok |-> TRUE, ref |-> <<"L">>, def |-> <<>>, mn |-> "", o1 |-> "", o2 |-> ""],
         [text |-> <<"E", "N", "D", "I", "F">>, upper |-> <<"E", "N", "D", "I", "F">>, labels |-> <<>>, directive |-> TRUE, arity_ok |-> TRUE, ref |-> <<>>, def |-> <<>>, mn |-> "", o1 |-> "", o2 |-> ""],
         [text |-> <<"L", ":", " ", "C", "L", "S">>, upper |-> <<"L", ":", " ", "C", "L", "S">>, labels |-> <<<<"L">>>>, directive |-> FALSE, arity_ok |-> TRUE, ref |-> <<>>, def |-> <<"L">>, mn |-> "", o1 |-> "", o2 |-> ""],
         [text |-> <<"L", " ", "=", " ", "1">>, upper |-> <<"L", " ", "=", " ", "1">>, labels |-> <<>>, directive |-> FALSE, arity_ok |-> TRUE, ref |-> <<>>, def |-> <<"L">>, mn |-> "", o1 |-> "", o2 |-> ""],
         [text |-> <<"J", "P", " ", "L">>, upper |-> <<"J", "P", " ", "L">>, labels |-> <<>>, directive |-> FALSE, arity_ok |-> TRUE, ref |-> <<"L">>, def |-> <<>>, mn |-> "", o1 |-> "", o2 |-> ""]
        }
      [] suite = "forms" ->
        {
         [text |-> <<"L", "D", " ", "I", ",", " ", "V", "2">>, upper |-> <<"L", "D", " ", "I", ",", " ", "V", "2">>, labels |-> <<>>, directive |-> FALSE, arity_ok |-> TRUE, ref |-> <<>>, def |-> <<>>, mn |-> "LD", o1 |-> "I", o2 |-> "V2"],
         [text |-> <<"L", "D", " ", "I", ",", " ", "D", "T">>, upper |-> <<"L", "D", " ", "I", ",", " ", "D", "T">>, labels |-> <<>>, directive |-> FALSE, arity_ok |-> TRUE, ref |-> <<>>, def |-> <<>>, mn |-> "LD", o1 |-> "I", o2 |-> "DT"],
         [text |-> <<"L", "D", " ", "I", ",", " ", "K">>, upper |-> <<"L", "D", " ", "I", ",", " ", "K">>, labels |-> <<>>, directive |-> FALSE, arity_ok |-> TRUE, ref |-> <<>>, def |-> <<>>, mn |-> "LD", o1 |-> "I", o2 |-> "K"],
         [text |-> <<"L", "D", " ", "I", ",", " ", "[", "I", "]">>, upper |-> <<"L", "D", " ", "I", ",", " ", "[", "I", "]">>, labels |-> <<>>, directive |-> FALSE, arity_ok |-> TRUE, ref |-> <<>>, def |-> <<>>, mn |-> "LD", o1 |-> "I", o2 |-> "[I]"],
         [text |-> <<"L", "D", " ", "I", ",", " ", "R">>, upper |-> <<"L", "D", " ", "I", ",", " ", "R">>, labels |-> <<>>, directive |-> FALSE, arity_ok |-> TRUE, ref |-> <<>>, def |-> <<>>, mn |-> "LD", o1 |-> "I", o2 |-> "R"],
         [text |-> <<"L", "D", " ", "I", ",", " ", "7">>, upper |-> <<"L", "D", " ", "I", ",", " ", "7">>, labels |-> <<>>, directive |-> FALSE, arity_ok |-> TRUE, ref |-> <<>>, def |-> <<>>, mn |-> "LD", o1 |-> "I", o2 |-> "7"],
         [text |-> <<"L", "D", " ", "I", ",", " ", "I">>, upper |-> <<"L", "D", " ", "I", ",", " ", "I">>, labels |-> <<>>, directive |-> FALSE, arity_ok |-> TRUE, ref |-> <<>>, def |-> <<>>, mn |-> "LD", o1 |-> "I", o2 |-> "I"],
         [text |-> <<"L", "D", " ", "D", "T", ",", " ", "V", "2">>, upper |-> <<"L", "D", " ", "D", "T", ",", " ", "V", "2">>, labels |-> <<>>, directive |-> FALSE, arity_ok |-> TRUE, ref |-> <<>>, def |-> <<>>, mn |-> "LD", o1 |-> "DT", o2 |-> "V2"],
         [text |-> <<"L", "D", " ", "D", "T", ",", " ", "D", "T">>, upper |-> <<"L", "D", " ", "D", "T", ",", " ", "D", "T">>, labels |-> <<>>, directive |-> FALSE, arity_ok |-> TRUE, ref |-> <<>>, def |-> <<>>, mn |-> "LD", o1 |-> "DT", o2 |-> "DT"],
         [text |-> <<"L", "D", " ", "D", "T", ",", " ", "K">>, upper |-> <<"L", "D", " ", "D", "T", ",", " ", "K">>, labels |-> <<>>, directive |-> FALSE, arity_ok |-> TRUE, ref |-> <<>>, def |-> <<>>, mn |-> "LD", o1 |-> "DT", o2 |-> "K"],
         [text |-> <<"L", "D", " ", "D", "T", ",", " ", "[", "I", "]">>, upper |-> <<"L", "D", " ", "D", "T", ",", " ", "[", "I", "]">>, labels |-> <<>>, directive |-> FALSE, arity_ok |-> TRUE, ref |-> <<>>, def |-> <<>>, mn |-> "LD", o1 |-> "DT", o2 |-> "[I]"],
         [text |-> <<"L", "D", " ", "D", "T", ",", " ", "R">>, upper |-> <<"L", "D", " ", "D", "T", ",", " ", "R">>, labels |-> <<>>, directive |-> FALSE, arity_ok |-> TRUE, ref |-> <<>>, def |-> <<>>, mn |-> "LD", o1 |-> "DT", o2 |-> "R"],
         [text |-> <<"L", "D", " ", "D", "T", ",", " ", "7">>, upper |-> <<"L", "D", " ", "D", "T", ",", " ", "7">>, labels |-> <<>>, directive |-> FALSE, arity_ok |-> TRUE, ref |-> <<>>, def |-> <<>>, mn |-> "LD", o1 |-> "DT", o2 |-> "7"],
         [text |-> <<"L", "D", " ", "D", "T", ",", " ", "I">>, upper |-> <<"L", "D", " ", "D", "T", ",", " ", "I">>, labels |-> <<>>, directive |-> FALSE, arity_ok |-> TRUE, ref |-> <<>>, def |-> <<>>, mn |-> "LD", o1 |-> "DT", o2 |-> "I"],
         [text |-> <<"L", "D", " ", "S", "T", ",", " ", "V", "2">>, upper |-> <<"L", "D", " ", "S", "T", ",", " ", "V", "2">>, labels |-> <<>>, directive |-> FALSE, arity_ok |-> TRUE, ref |-> <<>>, def |-> <<>>, mn |-> "LD", o1 |-> "ST", o2 |-> "V2"],
         [text |-> <<"L", "D", " ", "S", "T", ",", " ", "D", "T">>, upper |-> <<"L", "D", " ", "S", "T", ",", " ", "D", "T">>, labels |-> <<>>, directive |-> FALSE, arity_ok |-> TRUE, ref |-> <<>>, def |-> <<>>, mn |-> "LD", o1 |-> "ST", o2 |-> "DT"],
         [text |-> <<"L", "D", " ", "S", "T", ",", " ", "K">>, upper |-> <<"L", "D", " ", "S", "T", ",", " ", "K">>, labels |-> <<>>, directive |-> FALSE, arity_ok |-> TRUE, ref |-> <<>>, def |-> <<>>, mn |-> "LD", o1 |-> "ST", o2 |-> "K"],
         [text |-> <<"L", "D", " ", "S", "T", ",", " ", "[", "I", "]">>, upper |-> <<"L", "D", " ", "S", "T", ",", " ", "[", "I", "]">>, labels |-> <<>>, directive |-> FALSE, arity_ok |-> TRUE, ref |-> <<>>, def |-> <<>>, mn |-> "LD", o1 |-> "ST", o2 |-> "[I]"],
         [text |-> <<"L", "D", " ", "S", "T", ",", " ", "R">>, upper |-> <<"L", "D", " ", "S", "T", ",", " ", "R">>, labels |-> <<>>, directive |-> FALSE, arity_ok |-> TRUE, ref |-> <<>>, def |-> <<>>, mn |-> "LD", o1 |-> "ST", o2 |-> "R"],
         [text |-> <<"L", "D", " ", "S", "T", ",", " ", "7">>, upper |-> <<"L", "D", " ", "S", "T", ",", " ", "7">>, labels |-> <<>>, directive |-> FALSE, arity_ok |-> TRUE, ref |-> <<>>, def |-> <<>>, mn |-> "LD", o1 |-> "ST", o2 |-> "7"],
         [text |-> <<"L", "D", " ", "S", "T", ",", " ", "I">>, upper |-> <<"L", "D", " ", "S", "T", ",", " ", "I">>, labels |-> <<>>, directive |-> FALSE, arity_ok |-> TRUE, ref |-> <<>>, def |-> <<>>, mn |-> "LD", o1 |-> "ST", o2 |-> "I"],
         [text |-> <<"L", "D", " ", "F", ",", " ", "V", "2">>, upper |-> <<"L", "D", " ", "F", ",", " ", "V", "2">>, labels |-> <<>>, directive |-> FALSE, arity_ok |-> TRUE, ref |-> <<>>, def |-> <<>>, mn |-> "LD", o1 |-> "F", o2 |-> "V2"],
         [text |-> <<"L", "D", " ", "F", ",", " ", "D", "T">>, upper |-> <<"L", "D", " ", "F", ",", " ", "D", "T">>, labels |-> <<>>, directive |-> FALSE, arity_ok |-> TRUE, ref |-> <<>>, def |-> <<>>, mn |-> "LD", o1 |-> "F", o2 |-> "DT"],
         [text |-> <<"L", "D", " ", "F", ",", " ", "K">>, upper |-> <<"L", "D", " ", "F", ",", " ", "K">>, labels |-> <<>>, directive |-> FALSE, arity_ok |-> TRUE, ref |-> <<>>, def |-> <<>>, mn |-> "LD", o1 |-> "F", o2 |-> "K"],
         [text |-> <<"L", "D", " ", "F", ",", " ", "[", "I", "]">>, upper |-> <<"L", "D", " ", "F", ",", " ", "[", "I", "]">>, labels |-> <<>>, directive |-> FALSE, arity_ok |-> TRUE, ref |-> <<>>, def |-> <<>>, mn |-> "LD", o1 |-> "F", o2 |-> "[I]"],
         [text |-> <<"L", "D", " ", "F", ",", " ", "R">>, upper |-> <<"L", "D", " ", "F", ",", " ", "R">>, labels |-> <<>>, directive |-> FALSE, arity_ok |-> TRUE, ref |-> <<>>, def |-> <<>>, mn |-> "LD", o1 |-> "F", o2 |-> "R"],
         [text |-> <<"L", "D", " ", "F", ",", " ", "7">>, upper |-> <<"L", "D", " ", "F", ",", " ", "7">>, labels |-> <<>>, directive |-> FALSE, arity_ok |-> TRUE, ref |-> <<>>, def |-> <<>>, mn |-> "LD", o1 |-> "F", o2 |-> "7"],
         [text |-> <<"L", "D", " ", "F", ",", " ", "I">>, upper |-> <<"L", "D", " ", "F", ",", " ", "I">>, labels |-> <<>>, directive |-> FALSE, arity_ok |-> TRUE, ref |-> <<>>, def |-> <<>>, mn |-> "LD", o1 |-> "F", o2 |-> "I"],
         [text |-> <<"L", "D", " ", "H", "F", ",", " ", "V", "2">>, upper |-> <<"L", "D", " ", "H", "F", ",", " ", "V", "2">>, labels |-> <<>>, directive |-> FALSE, arity_ok |-> TRUE, ref |-> <<>>, def |-> <<>>, mn |-> "LD", o1 |-> "HF", o2 |-> "V2"],
         [text |-> <<"L", "D", " ", "H", "F", ",", " ", "D", "T">>, upper |-> <<"L", "D", " ", "H", "F", ",", " ", "D", "T">>, labels |-> <<>>, directive |-> FALSE, arity_ok |-> TRUE, ref |-> <<>>, def |-> <<>>, mn |-> "LD", o1 |-> "HF", o2 |-> "DT"],
         [text |-> <<"L", "D", " ", "H", "F", ",", " ", "K">>, upper |-> <<"L", "D", " ", "H", "F", ",", " ", "K">>, labels |-> <<>>, directive |-> FALSE, arity_ok |-> TRUE, ref |-> <<>>, def |-> <<>>, mn |-> "LD", o1 |-> "HF", o2 |-> "K"],
         [text |-> <<"L", "D", " ", "H", "F", ",", " ", "[", "I", "]">>, upper |-> <<"L", "D", " ", "H", "F", ",", " ", "[", "I", "]">>, labels |-> <<>>, directive |-> FALSE, arity_ok |-> TRUE, ref |-> <<>>, def |-> <<>>, mn |-> "LD", o1 |-> "HF", o2 |-> "[I]"],
         [text |-> <<"L", "D", " ", "H", "F", ",", " ", "R">>, upper |-> <<"L", "D", " ", "H", "F", ",", " ", "R">>, labels |-> <<>>, directive |-> FALSE, arity_ok |-> TRUE, ref |-> <<>>, def |-> <<>>, mn |-> "LD", o1 |-> "HF", o2 |-> "R"],
         [text |-> <<"L", "D", " ", "H", "F", ",", " ", "7">>, upper |-> <<"L", "D", " ", "H", "F", ",", " ", "7">>, labels |-> <<>>, directive |-> FALSE, arity_ok |-> TRUE, ref |-> <<>>, def |-> <<>>, mn |-> "LD", o1 |-> "HF", o2 |-> "7"],
         [text |-> <<"L", "D", " ", "H", "F", ",", " ", "I">>, upper |-> <<"L", "D", " ", "H", "F", ",", " ", "I">>, labels |-> <<>>, directive |-> FALSE, arity_ok |-> TRUE, ref |-> <<>>, def |-> <<>>, mn |-> "LD", o1 |-> "HF", o2 |-> "I"],
         [text |-> <<"L", "D", " ", "B", ",", " ", "V", "2">>, upper |-> <<"L", "D", " ", "B", ",", " ", "V", "2">>, labels |-> <<>>, directive |-> FALSE, arity_ok |-> TRUE, ref |-> <<>>, def |-> <<>>, mn |-> "LD", o1 |-> "B", o2 |-> "V2"],
         [text |-> <<"L", "D", " ", "B", ",", " ", "D", "T">>, upper |-> <<"L", "D", " ", "B", ",", " ", "D", "T">>, labels |-> <<>>, directive |-> FALSE, arity_ok |-> TRUE, ref |-> <<>>, def |-> <<>>, mn |-> "LD", o1 |-> "B", o2 |-> "DT"],
         [text |-> <<"L", "D", " ", "B", ",", " ", "K">>, upper |-> <<"L", "D", " ", "B", ",", " ", "K">>, labels |-> <<>>, directive |-> FALSE, arity_ok |-> TRUE, ref |-> <<>>, def |-> <<>>, mn |-> "LD", o1 |-> "B", o2 |-> "K"],
         [text |-> <<"L", "D", " ", "B", ",", " ", "[", "I", "]">>, upper |-> <<"L", "D", " ", "B", ",", " ", "[", "I", "]">>, labels |-> <<>>, directive |-> FALSE, arity_ok |-> TRUE, ref |-> <<>>, def |-> <<>>, mn |-> "LD", o1 |-> "B", o2 |-> "[I]"],
         [text |-> <<"L", "D", " ", "B", ",", " ", "R">>, upper |-> <<"L", "D", " ", "B", ",", " ", "R">>, labels |-> <<>>, directive |-> FALSE, arity_ok |-> TRUE, ref |-> <<>>, def |-> <<>>, mn |-> "LD", o1 |-> "B", o2 |-> "R"],
         [text |-> <<"L", "D", " ", "B", ",", " ", "7">>, upper |-> <<"L", "D", " ", "B", ",", " ", "7">>, labels |-> <<>>, directive |-> FALSE, arity_ok |-> TRUE, ref |-> <<>>, def |-> <<>>, mn |-> "LD", o1 |-> "B", o2 |-> "7"],
         [text |-> <<"L", "D", " ", "B", ",", " ", "I">>, upper |-> <<"L", "D", " ", "B", ",", " ", "I">>, labels |-> <<>>, directive |-> FALSE, arity_ok |-> TRUE, ref |-> <<>>, def |-> <<>>, mn |-> "LD", o1 |-> "B", o2 |-> "I"],
         [text |-> <<"L", "D", " ", "[", "I", "]", ",", " ", "V", "2">>, upper |-> <<"L", "D", " ", "[", "I", "]", ",", " ", "V", "2">>, labels |-> <<>>, directive |-> FALSE, arity_ok |-> TRUE, ref |-> <<>>, def |-> <<>>, mn |-> "LD", o1 |-> "[I]", o2 |-> "V2"],
         [text |-> <<"L", "D", " ", "[", "I", "]", ",", " ", "D", "T">>, upper |-> <<"L", "D", " ", "[", "I", "]", ",", " ", "D", "T">>, labels |-> <<>>, directive |-> FALSE, arity_ok |-> TRUE, ref |-> <<>>, def |-> <<>>, mn |-> "LD", o1 |-> "[I]", o2 |-> "DT"],
         [text |-> <<"L", "D", " ", "[", "I", "]", ",", " ", "K">>, upper |-> <<"L", "D", " ", "[", "I", "]", ",", " ", "K">>, labels |-> <<>>, directive |-> FALSE, arity_ok |-> TRUE, ref |-> <<>>, def |-> <<>>, mn |-> "LD", o1 |-> "[I]", o2 |-> "K"],
         [text |-> <<"L", "D", " ", "[", "I", "]", ",", " ", "[", "I", "]">>, upper |-> <<"L", "D", " ", "[", "I", "]", ",", " ", "[", "I", "]">>, labels |-> <<>>, directive |-> FALSE, arity_ok |-> TRUE, ref |-> <<>>, def |-> <<>>, mn |-> "LD", o1 |-> "[I]", o2 |-> "[I]"],
         [text |-> <<"L", "D", " ", "[", "I", "]", ",", " ", "R">>, upper |-> <<"L", "D", " ", "[", "I", "]", ",", " ", "R">>, labels |-> <<>>, directive |-> FALSE, arity_ok |-> TRUE, ref |-> <<>>, def |-> <<>>, mn |-> "LD", o1 |-> "[I]", o2 |-> "R"],
         [text |-> <<"L", "D", " ", "[", "I", "]", ",", " ", "7">>, upper |-> <<"L", "D", " ", "[", "I", "]", ",", " ", "7">>, labels |-> <<>>, directive |-> FALSE, arity_ok |-> TRUE, ref |-> <<>>, def |-> <<>>, mn |-> "LD", o1 |-> "[I]", o2 |-> "7"],
         [text |-> <<"L", "D", " ", "[", "I", "]", ",", " ", "I">>, upper |-> <<"L", "D", " ", "[", "I", "]", ",", " ", "I">>, labels |-> <<>>, directive |-> FALSE, arity_ok |-> TRUE, ref |-> <<>>, def |-> <<>>, mn |-> "LD", o1 |-> "[I]", o2 |-> "I"],
         [text |-> <<"L", "D", " ", "R", ",", " ", "V", "2">>, upper |-> <<"L", "D", " ", "R", ",", " ", "V", "2">>, labels |-> <<>>, directive |-> FALSE, arity_ok |-> TRUE, ref |-> <<>>, def |-> <<>>, mn |-> "LD", o1 |-> "R", o2 |-> "V2"],
         [text |-> <<"L", "D", " ", "R", ",", " ", "D", "T">>, upper |-> <<"L", "D", " ", "R", ",", " ", "D", "T">>, labels |-> <<>>, directive |-> FALSE, arity_ok |-> TRUE, ref |-> <<>>, def |-> <<>>, mn |-> "LD", o1 |-> "R", o2 |-> "DT"],
         [text |-> <<"L", "D", " ", "R", ",", " ", "K">>, upper |-> <<"L", "D", " ", "R", ",", " ", "K">>, labels |-> <<>>, directive |-> FALSE, arity_ok |-> TRUE, ref |-> <<>>, def |-> <<>>, mn |-> "LD", o1 |-> "R", o2 |-> "K"],
         [text |-> <<"L", "D", " ", "R", ",", " ", "[", "I", "]">>, upper |-> <<"L", "D", " ", "R", ",", " ", "[", "I", "]">>, labels |-> <<>>, directive |-> FALSE, arity_ok |-> TRUE, ref |-> <<>>, def |-> <<>>, mn |-> "LD", o1 |-> "R", o2 |-> "[I]"],
         [text |-> <<"L", "D", " ", "R", ",", " ", "R">>, upper |-> <<"L", "D", " ", "R", ",", " ", "R">>, labels |-> <<>>, directive |-> FALSE, arity_ok |-> TRUE, ref |-> <<>>, def |-> <<>>, mn |-> "LD", o1 |-> "R", o2 |-> "R"],
         [text |-> <<"L", "D", " ", "R", ",", " ", "7">>, upper |-> <<"L", "D", " ", "R", ",", " ", "7">>, labels |-> <<>>, directive |-> FALSE, arity_ok |-> TRUE, ref |-> <<>>, def |-> <<>>, mn |-> "LD", o1 |-> "R", o2 |-> "7"],
         [text |-> <<"L", "D", " ", "R", ",", " ", "I">>, upper |-> <<"L", "D", " ", "R", ",", " ", "I">>, labels |-> <<>>, directive |-> FALSE, arity_ok |-> TRUE, ref |-> <<>>, def |-> <<>>, mn |-> "LD", o1 |-> "R", o2 |-> "I"],
         [text |-> <<"L", "D", " ", "V", "1", ",", " ", "V", "2">>, upper |-> <<"L", "D", " ", "V", "1", ",", " ", "V", "2">>, labels |-> <<>>, directive |-> FALSE, arity_ok |-> TRUE, ref |-> <<>>, def |-> <<>>, mn |-> "LD", o1 |-> "V1", o2 |-> "V2"],
         [text |-> <<"L", "D", " ", "V", "1", ",", " ", "D", "T">>, upper |-> <<"L", "D", " ", "V", "1", ",", " ", "D", "T">>, labels |-> <<>>, directive |-> FALSE, arity_ok |-> TRUE, ref |-> <<>>, def |-> <<>>, mn |-> "LD", o1 |-> "V1", o2 |-> "DT"],
         [text |-> <<"L", "D", " ", "V", "1", ",", " ", "K">>, upper |-> <<"L", "D", " ", "V", "1", ",", " ", "K">>, labels |-> <<>>, directive |-> FALSE, arity_ok |-> TRUE, ref |-> <<>>, def |-> <<>>, mn |-> "LD", o1 |-> "V1", o2 |-> "K"],
         [text |-> <<"L", "D", " ", "V", "1", ",", " ", "[", "I", "]">>, upper |-> <<"L", "D", " ", "V", "1", ",", " ", "[", "I", "]">>, labels |-> <<>>, directive |-> FALSE, arity_ok |-> TRUE, ref |-> <<>>, def |-> <<>>, mn |-> "LD", o1 |-> "V1", o2 |-> "[I]"],
         [text |-> <<"L", "D", " ", "V", "1", ",", " ", "R">>, upper |-> <<"L", "D", " ", "V", "1", ",", " ", "R">>, labels |-> <<>>, directive |-> FALSE, arity_ok |-> TRUE, ref |-> <<>>, def |-> <<>>, mn |-> "LD", o1 |-> "V1", o2 |-> "R"],
         [text |-> <<"L", "D", " ", "V", "1", ",", " ", "7">>, upper |-> <<"L", "D", " ", "V", "1", ",", " ", "7">>, labels |-> <<>>, directive |-> FALSE, arity_ok |-> TRUE, ref |-> <<>>, def |-> <<>>, mn |-> "LD", o1 |-> "V1", o2 |-> "7"],
         [text |-> <<"L", "D", " ", "V", "1", ",", " ", "I">>, upper |-> <<"L", "D", " ", "V", "1", ",", " ", "I">>, labels |-> <<>>, directive |-> FALSE, arity_ok |-> TRUE, ref |-> <<>>, def |-> <<>>, mn |-> "LD", o1 |-> "V1", o2 |-> "I"],
         [text |-> <<"L", "D", " ", "K", ",", " ", "V", "2">>, upper |-> <<"L", "D", " ", "K", ",", " ", "V", "2">>, labels |-> <<>>, directive |-> FALSE, arity_ok |-> TRUE, ref |-> <<>>, def |-> <<>>, mn |-> "LD", o1 |-> "K", o2 |-> "V2"],
         [text |-> <<"L", "D", " ", "K", ",", " ", "D", "T">>, upper |-> <<"L", "D", " ", "K", ",", " ", "D", "T">>, labels |-> <<>>, directive |-> FALSE, arity_ok |-> TRUE, ref |-> <<>>, def |-> <<>>, mn |-> "LD", o1 |-> "K", o2 |-> "DT"],
         [text |-> <<"L", "D", " ", "K", ",", " ", "K">>, upper |-> <<"L", "D", " ", "K", ",", " ", "K">>, labels |-> <<>>, directive |-> FALSE, arity_ok |-> TRUE, ref |-> <<>>, def |-> <<>>, mn |-> "LD", o1 |-> "K", o2 |-> "K"],
         [text |-> <<"L", "D", " ", "K", ",", " ", "[", "I", "]">>, upper |-> <<"L", "D", " ", "K", ",", " ", "[", "I", "]">>, labels |-> <<>>, directive |-> FALSE, arity_ok |-> TRUE, ref |-> <<>>, def |-> <<>>, mn |-> "LD", o1 |-> "K", o2 |-> "[I]"],
         [text |-> <<"L", "D", " ", "K", ",", " ", "R">>, upper |-> <<"L", "D", " ", "K", ",", " ", "R">>, labels |-> <<>>, directive |-> FALSE, arity_ok |-> TRUE, ref |-> <<>>, def |-> <<>>, mn |-> "LD", o1 |-> "K", o2 |-> "R"],
         [text |-> <<"L", "D", " ", "K", ",", " ", "7">>, upper |-> <<"L", "D", " ", "K", ",", " ", "7">>, labels |-> <<>>, directive |-> FALSE, arity_ok |-> TRUE, ref |-> <<>>, def |-> <<>>, mn |-> "LD", o1 |-> "K", o2 |-> "7"],
         [text |-> <<"L", "D", " ", "K", ",", " ", "I">>, upper |-> <<"L", "D", " ", "K", ",", " ", "I">>, labels |-> <<>>, directive |-> FALSE, arity_ok |-> TRUE, ref |-> <<>>, def |-> <<>>, mn |-> "LD", o1 |-> "K", o2 |-> "I"],
         [text |-> <<"S", "E", " ", "V", "1", ",", " ", "V", "2">>, upper |-> <<"S", "E", " ", "V", "1", ",", " ", "V", "2">>, labels |-> <<>>, directive |-> FALSE, arity_ok |-> TRUE, ref |-> <<>>, def |-> <<>>, mn |-> "SE", o1 |-> "V1", o2 |-> "V2"],
         [text |-> <<"S", "E", " ", "V", "1", ",", " ", "7">>, upper |-> <<"S", "E", " ", "V", "1", ",", " ", "7">>, labels |-> <<>>, directive |-> FALSE, arity_ok |-> TRUE, ref |-> <<>>, def |-> <<>>, mn |-> "SE", o1 |-> "V1", o2 |-> "7"],
         [text |-> <<"S", "E", " ", "V", "1", ",", " ", "D", "T">>, upper |-> <<"S", "E", " ", "V", "1", ",", " ", "D", "T">>, labels |-> <<>>, directive |-> FALSE, arity_ok |-> TRUE, ref |-> <<>>, def |-> <<>>, mn |-> "SE", o1 |-> "V1", o2 |-> "DT"],
         [text |-> <<"S", "E", " ", "I", ",", " ", "V", "2">>, upper |-> <<"S", "E", " ", "I", ",", " ", "V", "2">>, labels |-> <<>>, directive |-> FALSE, arity_ok |-> TRUE, ref |-> <<>>, def |-> <<>>, mn |-> "SE", o1 |-> "I", o2 |-> "V2"],
         [text |-> <<"S", "E", " ", "I", ",", " ", "7">>, upper |-> <<"S", "E", " ", "I", ",", " ", "7">>, labels |-> <<>>, directive |-> FALSE, arity_ok |-> TRUE, ref |-> <<>>, def |-> <<>>, mn |-> "SE", o1 |-> "I", o2 |-> "7"],
         [text |-> <<"S", "E", " ", "I", ",", " ", "D", "T">>, upper |-> <<"S", "E", " ", "I", ",", " ", "D", "T">>, labels |-> <<>>, directive |-> FALSE, arity_ok |-> TRUE, ref |-> <<>>, def |-> <<>>, mn |-> "SE", o1 |-> "I", o2 |-> "DT"],
         [text |-> <<"S", "N", "E", " ", "V", "1", ",", " ", "V", "2">>, upper |-> <<"S", "N", "E", " ", "V", "1", ",", " ", "V", "2">>, labels |-> <<>>, directive |-> FALSE, arity_ok |-> TRUE, ref |-> <<>>, def |-> <<>>, mn |-> "SNE", o1 |-> "V1", o2 |-> "V2"],
         [text |-> <<"S", "N", "E", " ", "V", "1", ",", " ", "7">>, upper |-> <<"S", "N", "E", " ", "V", "1", ",", " ", "7">>, labels |-> <<>>, directive |-> FALSE, arity_ok |-> TRUE, ref |-> <<>>, def |-> <<>>, mn |-> "SNE", o1 |-> "V1", o2 |-> "7"],
         [text |-> <<"S", "N", "E", " ", "V", "1", ",", " ", "D", "T">>, upper |-> <<"S", "N", "E", " ", "V", "1", ",", " ", "D", "T">>, labels |-> <<>>, directive |-> FALSE, arity_ok |-> TRUE, ref |-> <<>>, def |-> <<>>, mn |-> "SNE", o1 |-> "V1", o2 |-> "DT"],
         [text |-> <<"S", "N", "E", " ", "I", ",", " ", "V", "2">>, upper |-> <<"S", "N", "E", " ", "I", ",", " ", "V", "2">>, labels |-> <<>>, directive |-> FALSE, arity_ok |-> TRUE, ref |-> <<>>, def |-> <<>>, mn |-> "SNE", o1 |-> "I", o2 |-> "V2"],
         [text |-> <<"S", "N", "E", " ", "I", ",", " ", "7">>, upper |-> <<"S", "N", "E", " ", "I", ",", " ", "7">>, labels |-> <<>>, directive |-> FALSE, arity_ok |-> TRUE, ref |-> <<>>, def |-> <<>>, mn |-> "SNE", o1 |-> "I", o2 |-> "7"],
         [text |-> <<"S", "N", "E", " ", "I", ",", " ", "D", "T">>, upper |-> <<"S", "N", "E", " ", "I", ",", " ", "D", "T">>, labels |-> <<>>, directive |-> FALSE, arity_ok |-> TRUE, ref |-> <<>>, def |-> <<>>, mn |-> "SNE", o1 |-> "I", o2 |-> "DT"],
         [text |-> <<"A", "D", "D", " ", "I", ",", " ", "V", "2">>, upper |-> <<"A", "D", "D", " ", "I", ",", " ", "V", "2">>, labels |-> <<>>, directive |-> FALSE, arity_ok |-> TRUE, ref |-> <<>>, def |-> <<>>, mn |-> "ADD", o1 |-> "I", o2 |-> "V2"],
         [text |-> <<"A", "D", "D", " ", "I", ",", " ", "7">>, upper |-> <<"A", "D", "D", " ", "I", ",", " ", "7">>, labels |-> <<>>, directive |-> FALSE, arity_ok |-> TRUE, ref |-> <<>>, def |-> <<>>, mn |-> "ADD", o1 |-> "I", o2 |-> "7"],
         [text |-> <<"A", "D", "D", " ", "I", ",", " ", "I">>, upper |-> <<"A", "D", "D", " ", "I", ",", " ", "I">>, labels |-> <<>>, directive |-> FALSE, arity_ok |-> TRUE, ref |-> <<>>, def |-> <<>>, mn |-> "ADD", o1 |-> "I", o2 |-> "I"],
         [text |-> <<"A", "D", "D", " ", "V", "1", ",", " ", "V", "2">>, upper |-> <<"A", "D", "D", " ", "V", "1", ",", " ", "V", "2">>, labels |-> <<>>, directive |-> FALSE, arity_ok |-> TRUE, ref |-> <<>>, def |-> <<>>, mn |-> "ADD", o1 |-> "V1", o2 |-> "V2"],
         [text |-> <<"A", "D", "D", " ", "V", "1", ",", " ", "7">>, upper |-> <<"A", "D", "D", " ", "V", "1", ",", " ", "7">>, labels |-> <<>>, directive |-> FALSE, arity_ok |-> TRUE, ref |-> <<>>, def |-> <<>>, mn |-> "ADD", o1 |-> "V1", o2 |-> "7"],
         [text |-> <<"A", "D", "D", " ", "V", "1", ",", " ", "I">>, upper |-> <<"A", "D", "D", " ", "V", "1", ",", " ", "I">>, labels |-> <<>>, directive |-> FALSE, arity_ok |-> TRUE, ref |-> <<>>, def |-> <<>>, mn |-> "ADD", o1 |-> "V1", o2 |-> "I"]
        }

\* The most lines of a suite given to one assembler: the lines of "arity"
\* and of "forms" are given one to an assembler, those of "regs" one less
\* than those of the other suites, those of "order" two more.
SourceDepth(suite) ==
    CASE suite \in {"arity", "forms"} -> 1
      [] suite = "regs" -> MaxSourceLines - 1
      [] suite = "order" -> MaxSourceLines + 2
      [] OTHER -> MaxSourceLines

SourceInit ==
    /\ CodecIdle
    /\ EvalIdle
    /\ AsmIdle
    /\ TableIdle
    /\ SessIdle
    /\ DisIdle
    /\ ListIdle
    /\ WalkIdle
    /\ StackIdle
    /\ OrderIdle
    /\ lsuite \in SourceSuites
    /\ lphase = "lines"
    /\ lasm = chip8asm_new(FALSE)
    /\ lcalls = <<>>

\* One call chip8asm_process_line(chipasm, line).
SourceLine ==
    /\ lphase = "lines"
    /\ Len(lcalls) < SourceDepth(lsuite)
    /\ \E line \in SourceLines(lsuite), build \in Builds, junk \in JunkInstrs :
          With(chip8asm_process_line(lasm, line.text, build, junk), LAMBDA r :
             /\ lphase' = IF r.hang THEN "hung" ELSE IF r.trap THEN "killed" ELSE "lines"
             /\ lasm' = r.asm
             /\ lcalls' = Append(lcalls, [call |-> "process_line", line |-> line,
                                          returned |-> ~(r.hang \/ r.trap), ret |-> r.ret,
                                          asm |-> r.asm, prog |-> chip8asm_program_new]))
    /\ UNCHANGED <<lsuite, codecVars, evalVars, asmVars, tableVars, sessVars, disVars, listVars, walkVars, stackVars, orderVars>>

\* One call chip8asm_emit(chipasm, prog) with a new program; no line is
\* given after it.
SourceEmit ==
    /\ lphase = "lines"
    /\ \E build \in Builds :
          With(chip8asm_emit(lasm, chip8asm_program_new, build), LAMBDA r :
             /\ lphase' = IF r.trap THEN "killed" ELSE "emitted"
             /\ lasm' = r.asm
             /\ lcalls' = Append(lcalls, [call |-> "emit", line |-> <<>>,
                                          returned |-> ~r.trap, ret |-> r.ret,
                                          asm |-> r.asm, prog |-> r.prog]))
    /\ UNCHANGED <<lsuite, codecVars, evalVars, asmVars, tableVars, sessVars, disVars, listVars, walkVars, stackVars, orderVars>>

SourceNext == SourceLine \/ SourceEmit

SpecSource == SourceInit /\ [][SourceNext]_vars

\* The assembler before call i.
SourceBefore(i) == IF i > 1 THEN lcalls[i - 1].asm ELSE chip8asm_new(FALSE)

\* The calls of chip8asm_process_line made so far that returned.
SourceLineCalls ==
    {i \in 1..Len(lcalls) : lcalls[i].call = "process_line" /\ lcalls[i].returned}

\* What a statement in a skipped branch is to leave alone.
Untouched(chipasm) ==
    <<chipasm.labels, chipasm.line_label, chipasm.pc, chipasm.instructions>>

\* C21: while if_skip_else or if_skip_endif is not zero, a line that is not
\* an IFDEF, IFNDEF, ELSE or ENDIF leaves the label table, the pending
\* label, pc and the pending instructions as they were.
C21_SkippedLineChangesNothing ==
    lphase # Idle =>
        \A i \in SourceLineCalls :
           (~chip8asm_should_process(SourceBefore(i)) /\ ~lcalls[i].line.directive) =>
              Untouched(lcalls[i].asm) = Untouched(SourceBefore(i))

\* C22: a line whose operation has a number of operands that its grammar
\* does not allow returns an error and adds no pending instruction.
C22_WrongOperandCountIsError ==
    lphase # Idle =>
        \A i \in SourceLineCalls :
           ~lcalls[i].line.arity_ok =>
              /\ lcalls[i].ret = 1
              /\ lcalls[i].asm.instructions = SourceBefore(i).instructions

\* The assembler after the first n calls, had every line been given with
\* its mnemonic, directive, register names and special operands in upper
\* case.
RECURSIVE UpperAsm(_)
UpperAsm(n) ==
    IF n = 0 THEN chip8asm_new(FALSE)
    ELSE chip8asm_process_line(UpperAsm(n - 1), lcalls[n].line.upper,
                               CHOOSE build \in Builds : TRUE,
                               CHOOSE junk \in JunkInstrs : TRUE).asm

\* What chip8asm_process_line returns for line n in upper case.
UpperRet(n) ==
    chip8asm_process_line(UpperAsm(n - 1), lcalls[n].line.upper,
                          CHOOSE build \in Builds : TRUE,
                          CHOOSE junk \in JunkInstrs : TRUE).ret

\* Two names that differ, and only in the case of their letters.
FoldCase(c) == IF CharCode(c) \in 97..122 THEN CharCode(c) - 32 ELSE CharCode(c)
DifferInCaseOnly(a, b) ==
    /\ a # b
    /\ Len(a) = Len(b)
    /\ \A k \in 1..Len(a) : FoldCase(a[k]) = FoldCase(b[k])

\* The names defined by the lines accepted before call e.
DefinedBefore(e) ==
    {lcalls[j].line.def : j \in {i \in 1..(e - 1) : lcalls[i].ret = 0}} \ {<<>>}

\* The pending instructions before call e whose operand is a name that is
\* not defined, while a name that differs from it only in case is.
CaseMisses(e) ==
    {k \in 1..Len(SourceBefore(e).instructions) :
        /\ Len(SourceBefore(e).instructions[k].operands) >= 1
        /\ With(SourceBefore(e).instructions[k].operands[1], LAMBDA name :
              /\ name \notin DefinedBefore(e)
              /\ \E d \in DefinedBefore(e) : DifferInCaseOnly(name, d))}

\* C23: in the suite of lines written in mixed case, a line given with its mnemonic, directive, register names and
\* special operands in any case is taken as the same line in upper case: it
\* returns the same, leaves the same pc and as many pending instructions,
\* and chip8asm_emit returns the same and gives the same bytes. Names of
\* labels and constants are compared as written: chip8asm_emit fails when
\* a pending instruction refers to a name that is only defined in another
\* case.
C23_CaseOfKeywordsAndNames ==
    (lsuite = "case" /\ lphase \in {"lines", "emitted"}) =>
        /\ \A i \in SourceLineCalls :
              /\ lcalls[i].ret = UpperRet(i)
              /\ lcalls[i].asm.pc = UpperAsm(i).pc
              /\ Len(lcalls[i].asm.instructions) = Len(UpperAsm(i).instructions)
              /\ \A k \in 1..Len(lcalls[i].asm.instructions) :
                    lcalls[i].asm.instructions[k].chipop = UpperAsm(i).instructions[k].chipop
        /\ lphase = "emitted" =>
              With(Len(lcalls), LAMBDA e :
                 With(chip8asm_emit(UpperAsm(e - 1), chip8asm_program_new,
                                    CHOOSE build \in Builds : TRUE), LAMBDA r :
                    /\ lcalls[e].ret = r.ret
                    /\ lcalls[e].prog = r.prog
                    /\ CaseMisses(e) # {} => lcalls[e].ret = 1))

\* "lbl: cLs" was taken as a CLS with the label lbl, "Jp LBL" as a JP, and
\* chip8asm_emit failed.
C23_Witness ==
    /\ lphase = "emitted"
    /\ lsuite = "case"
    /\ Len(lcalls) = 3
    /\ lcalls[1].line.text = <<"l", "b", "l", ":", " ", "c", "L", "s">>
    /\ lcalls[1].ret = 0
    /\ lcalls[2].line.text = <<"J", "p", " ", "L", "B", "L">>
    /\ lcalls[2].ret = 0
    /\ lcalls[2].asm.instructions[1].chipop = "OP_CLS"
    /\ lcalls[2].asm.instructions[2].chipop = "OP_JP"
    /\ CaseMisses(3) = {2}
    /\ lcalls[3].ret = 1

\* The names a label table holds.
NamesOf(tab) == UNION {{tab[b][k].label : k \in 1..Len(tab[b])} : b \in DOMAIN tab}

\* The names call i added to the label table, the name the line defines as
\* a constant apart: the labels it gave to a statement.
BoundBy(i) ==
    (NamesOf(lcalls[i].asm.labels) \ NamesOf(SourceBefore(i).labels))
        \ {lcalls[i].line.def}

\* C25: a line that starts with a label while a label is pending, or that
\* starts with two labels, returns an error and the first label stays
\* pending; a call adds at most one pending instruction and gives it at
\* most one label, with the address of that instruction.
C25_OneLabelPerStatement ==
    lphase # Idle =>
        \A i \in SourceLineCalls :
           With(SourceBefore(i).line_label, LAMBDA pending :
              /\ (pending # <<>> /\ lcalls[i].line.labels # <<>>) =>
                    lcalls[i].ret = 1 /\ lcalls[i].asm.line_label = pending
              /\ (pending = <<>> /\ Len(lcalls[i].line.labels) >= 2) =>
                    lcalls[i].ret = 1 /\ lcalls[i].asm.line_label = lcalls[i].line.labels[1]
              /\ Len(lcalls[i].asm.instructions)
                    \in {Len(SourceBefore(i).instructions),
                         Len(SourceBefore(i).instructions) + 1}
              /\ Cardinality(BoundBy(i)) <= 1
              /\ \A name \in BoundBy(i) :
                    /\ Len(lcalls[i].asm.instructions) = Len(SourceBefore(i).instructions) + 1
                    /\ ltable_get(lcalls[i].asm.labels, name).value
                          = lcalls[i].asm.instructions[Len(lcalls[i].asm.instructions)].pc)

\* "B: DB 1" was refused while A was pending, and the DB 1 after it got A.
C25_Witness ==
    /\ lphase = "lines"
    /\ lsuite = "label"
    /\ Len(lcalls) = 3
    /\ lcalls[1].asm.line_label = <<"A">>
    /\ lcalls[2].line.labels = << <<"B">> >>
    /\ lcalls[2].ret = 1
    /\ lcalls[2].asm.line_label = <<"A">>
    /\ BoundBy(3) = {<<"A">>}

\* The operation the priority of C27 gives for a mnemonic and two operands.
FormOf(mn, o1, o2) ==
    LET reg(o) == o \in {"V1", "V2"}
    IN  CASE mn = "LD" ->
               (CASE o1 = "I" -> "OP_LD_I"
                  [] o1 = "DT" -> "OP_LD_DT_REG"
                  [] o1 = "ST" -> "OP_LD_ST"
                  [] o1 = "F" -> "OP_LD_F"
                  [] o1 = "HF" -> "OP_LD_HF"
                  [] o1 = "B" -> "OP_LD_B"
                  [] o1 = "[I]" -> "OP_LD_DEREF_I_REG"
                  [] o1 = "R" -> "OP_LD_R_REG"
                  [] OTHER ->
                       IF reg(o2) THEN "OP_LD_REG"
                       ELSE CASE o2 = "DT" -> "OP_LD_REG_DT"
                              [] o2 = "K" -> "OP_LD_KEY"
                              [] o2 = "[I]" -> "OP_LD_REG_DEREF_I"
                              [] o2 = "R" -> "OP_LD_REG_R"
                              [] OTHER -> "OP_LD_BYTE")
          [] mn = "SE" -> IF reg(o2) THEN "OP_SE_REG" ELSE "OP_SE_BYTE"
          [] mn = "SNE" -> IF reg(o2) THEN "OP_SNE_REG" ELSE "OP_SNE_BYTE"
          [] mn = "ADD" -> IF o1 = "I" THEN "OP_ADD_I"
                           ELSE IF reg(o2) THEN "OP_ADD_REG" ELSE "OP_ADD_BYTE"

\* C27: for every pair of operands, an LD, SE, SNE or ADD is accepted and
\* becomes the pending instruction whose operation the priority gives.
C27_FormByPriority ==
    lphase # Idle =>
        \A i \in SourceLineCalls :
           lcalls[i].line.mn # "" =>
              /\ lcalls[i].ret = 0
              /\ Len(lcalls[i].asm.instructions) = Len(SourceBefore(i).instructions) + 1
              /\ lcalls[i].asm.instructions[Len(lcalls[i].asm.instructions)].chipop
                    = FormOf(lcalls[i].line.mn, lcalls[i].line.o1, lcalls[i].line.o2)

\* LD I, V2 became a load of I, LD V1, V2 a load of a register, LD V1, K a
\* wait for a key and LD V1, I the load of a byte: each is the one line of
\* its assembler.
C27_Witness ==
    /\ lsuite = "forms"
    /\ Len(lcalls) = 1
    /\ lcalls[1].ret = 0
    /\ lcalls[1].line.mn = "LD"
    /\ \/ lcalls[1].line.o1 = "I" /\ lcalls[1].line.o2 = "V2"
          /\ lcalls[1].asm.instructions[1].chipop = "OP_LD_I"
       \/ lcalls[1].line.o1 = "V1" /\ lcalls[1].line.o2 = "I"
          /\ lcalls[1].asm.instructions[1].chipop = "OP_LD_BYTE"

\* The elements of the list of jump and return points, and the offsets the
\* walks started from.
WalkRecorded == {wlists.jpret_list[i] : i \in 1..Len(wlists.jpret_list)}
WalkedFrom == {wwalked[i] : i \in 1..Len(wwalked)}

\* C31: when the analysis has come to its end without an error, the offset
\* addr - 0x200 of every JP addr, JP V0, addr and CALL addr that a walk
\* decoded was given to the list of starts, so that a walk started from it,
\* and is recorded as a return point; a CALL does not end its walk and its
\* offset is not recorded as a jump point.
C31_TargetsBecomeReturnPoints ==
    wphase = "done" =>
        \A k \in 1..Len(wtrace) :
           /\ wtrace[k].op \in {"OP_JP", "OP_JP_V0", "OP_CALL"} =>
                 /\ (wtrace[k].u - CHIP8_PROG_START) % 65536 \in WalkedFrom
                 /\ (wtrace[k].u - CHIP8_PROG_START) % 65536 \in WalkRecorded
           /\ wtrace[k].op = "OP_CALL" =>
                 /\ ~wtrace[k].ends
                 /\ wtrace[k].pc + 1 \notin WalkRecorded

(***************************************************************************)
(* chip8asm_eval turn by turn, on expressions about as long as its stacks: *)
(* one action for a turn of the main loop with the tests of the stacks at  *)
(* its end, one for a turn of the loop after it, one for the return. kop   *)
(* and knum are the stacks as the turn left them; a turn writes a stack at *)
(* most once above what it held, at index Len - 1 of the stack it leaves.  *)
(***************************************************************************)
MaxOver == 2

\* What is repeated: an operator or a number that stays on its stack, and
\* "2+", whose operator is applied at the next one.
DeepToks == {<<"(">>, <<"~">>, <<"-">>, <<"2", " ">>, <<"A", " ">>, <<"2", "+">>,
             <<"(", "2", "+">>}
DeepTails == {<<>>, <<"2">>}

\* n times tok.
RECURSIVE Repeat(_, _)
Repeat(tok, n) == IF n = 0 THEN <<>> ELSE tok \o Repeat(tok, n - 1)

StackInit ==
    /\ CodecIdle
    /\ EvalIdle
    /\ AsmIdle
    /\ TableIdle
    /\ SessIdle
    /\ DisIdle
    /\ ListIdle
    /\ WalkIdle
    /\ SourceIdle
    /\ OrderIdle
    /\ kphase = "loop"
    /\ \E tok \in DeepToks, tail \in DeepTails,
          n \in (STACK_SIZE - MaxOver)..(STACK_SIZE + MaxOver) :
          kexpr = Repeat(tok, n) \o tail
    /\ krest = kexpr
    /\ kop = <<>>
    /\ knum = <<>>
    /\ kexp = TRUE
    /\ kres = NoValue

\* A turn of the main loop.
StackStep ==
    /\ kphase = "loop"
    /\ krest # <<>>
    /\ \E build \in Builds :
          With(EvalStep(EvalLabels, krest, kop, knum, kexp, build), LAMBDA s :
             IF s.trap
             THEN /\ kphase' = "killed"
                  /\ kres' = EvalTrap
                  /\ UNCHANGED <<krest, kop, knum, kexp>>
             ELSE IF s.err # 0
             THEN /\ kphase' = "failed"
                  /\ kres' = EvalFail
                  /\ UNCHANGED <<krest, kop, knum, kexp>>
             ELSE /\ kop' = s.opstack
                  /\ knum' = s.numstack
                  /\ kexp' = s.expecting_num
                  /\ IF stack_overflowed(s.opstack, s.numstack)
                     THEN /\ kphase' = "failed"
                          /\ kres' = EvalFail
                          /\ krest' = s.expr
                     ELSE /\ kphase' = "loop"
                          /\ kres' = kres
                          /\ krest' = skip_spaces(s.expr))
    /\ UNCHANGED <<kexpr, codecVars, evalVars, asmVars, tableVars, sessVars, disVars, listVars, walkVars, sourceVars, orderVars>>

\* A turn of the loop after the main loop, which applies what is left on
\* the operator stack.
StackApply ==
    /\ kphase = "loop"
    /\ krest = <<>>
    /\ kop # <<>>
    /\ kop' = Front(kop)
    /\ IF Top(kop) = "("
       THEN /\ kphase' = "failed"
            /\ kres' = EvalFail
            /\ knum' = knum
       ELSE \E build \in Builds :
               With(operator_apply(Top(kop), knum, build), LAMBDA r :
                  /\ kphase' = IF r.trap THEN "killed" ELSE IF r.err # 0 THEN "failed"
                                ELSE "loop"
                  /\ kres' = IF r.trap THEN EvalTrap ELSE IF r.err # 0 THEN EvalFail
                              ELSE kres
                  /\ knum' = r.numstack)
    /\ UNCHANGED <<kexpr, krest, kexp, codecVars, evalVars, asmVars, tableVars, sessVars, disVars, listVars, walkVars, sourceVars, orderVars>>

\* The end of chip8asm_eval.
StackReturn ==
    /\ kphase = "loop"
    /\ krest = <<>>
    /\ kop = <<>>
    /\ kphase' = IF Len(knum) # 1 THEN "failed" ELSE "done"
    /\ kres' = IF Len(knum) # 1 THEN EvalFail
                ELSE [ret |-> 0, value |-> knum[1], trap |-> FALSE]
    /\ UNCHANGED <<kexpr, krest, kop, knum, kexp, codecVars, evalVars, asmVars, tableVars, sessVars, disVars, listVars, walkVars, sourceVars, orderVars>>

StackNext == StackStep \/ StackApply \/ StackReturn

SpecStack == StackInit /\ [][StackNext]_vars

\* C32: at no time during chip8asm_eval does a stack hold more than
\* STACK_SIZE elements, so that no element is written at index STACK_SIZE or
\* above; when a turn of the loop leaves a stack with STACK_SIZE elements
\* the call ends there and returns an error.
C32_StacksStayWithinCapacity ==
    kphase # Idle =>
        /\ Len(kop) <= STACK_SIZE
        /\ Len(knum) <= STACK_SIZE
        /\ (Len(kop) = STACK_SIZE \/ Len(knum) = STACK_SIZE) =>
              /\ kphase = "failed"
              /\ kres.ret = 1

\* The hundredth "(" filled the operator stack and the call returned an
\* error with a "(" and a number still to read.
C32_Witness ==
    /\ kphase = "failed"
    /\ Len(kop) = STACK_SIZE
    /\ kop[STACK_SIZE] = "("
    /\ knum = <<>>
    /\ Len(krest) = 2
    /\ kres.ret = 1

\* A name that a reader takes for a register: V or v and one hex digit.
ValidRegister(name) ==
    /\ Len(name) = 2
    /\ name[1] \in {"V", "v"}
    /\ name[2] \in {"0", "1", "2", "3", "4", "5", "6", "7", "8", "9",
                    "A", "B", "C", "D", "E", "F", "a", "b", "c", "d", "e", "f"}

\* The operands of a machine instruction that stand for registers.
RegisterPositions(chipop) ==
    IF chipop \in RegByteOps \cup RegOps \cup ShiftOps THEN {1}
    ELSE IF chipop \in RegRegOps \cup {"OP_SHR_QUIRK", "OP_SHL_QUIRK", "OP_DRW"} THEN {1, 2}
    ELSE {}

\* The pending instructions before call e with an operand that stands for a
\* register and is not the name of one.
BadRegisters(e) ==
    {k \in 1..Len(SourceBefore(e).instructions) :
        With(SourceBefore(e).instructions[k], LAMBDA instr :
           /\ instr.type = "IT_CHIP8_OP"
           /\ \E pos \in RegisterPositions(instr.chipop) :
                 ~ValidRegister(instr.operands[pos]))}

\* C35: when a pending machine instruction has, where a register stands, an
\* operand that is not the name of a register, chip8asm_emit returns an
\* error and writes nothing at the address of that instruction.
C35_BadRegisterFailsEmit ==
    lphase = "emitted" =>
        With(Len(lcalls), LAMBDA e :
           \A k \in BadRegisters(e) :
              /\ lcalls[e].ret = 1
              /\ \A pos \in DOMAIN lcalls[e].prog.mem :
                    pos \notin {SourceBefore(e).instructions[k].pc - CHIP8_PROG_START,
                                SourceBefore(e).instructions[k].pc - CHIP8_PROG_START + 1})

\* The lines IFDEF L and IFNDEF L, and the name L.
IfdefL == <<"I", "F", "D", "E", "F", " ", "L">>
IfndefL == <<"I", "F", "N", "D", "E", "F", " ", "L">>
NameL == <<"L">>

\* Call i is a line that is not in a skipped branch.
ActiveLine(i) == i \in SourceLineCalls /\ chip8asm_should_process(SourceBefore(i))

\* The names defined by the lines before call i that were accepted and are
\* not in a skipped branch.
ActiveDefs(i) ==
    {lcalls[j].line.def : j \in {n \in 1..(i - 1) : ActiveLine(n) /\ lcalls[n].ret = 0}}
        \ {<<>>}

\* C39: an IFDEF L or IFNDEF L that is not itself skipped takes its branch
\* by whether a line before it defined L: IFDEF L skips its branch exactly
\* when none did, IFNDEF L exactly when one did, whatever the lines after
\* it define. A JP L written before the line that defines L is resolved by
\* chip8asm_emit all the same.
C39_ConditionSeesEarlierDefinitions ==
    (lsuite = "order" /\ lphase \in {"lines", "emitted"}) =>
        /\ \A i \in SourceLineCalls :
              ActiveLine(i) =>
                 /\ lcalls[i].line.text = IfdefL =>
                       (~chip8asm_should_process(lcalls[i].asm) <=> NameL \notin ActiveDefs(i))
                 /\ lcalls[i].line.text = IfndefL =>
                       (~chip8asm_should_process(lcalls[i].asm) <=> NameL \in ActiveDefs(i))
        /\ lphase = "emitted" =>
              (NameL \in ActiveDefs(Len(lcalls)) => lcalls[Len(lcalls)].ret = 0)

(***************************************************************************)
(* chip8disasm_populate_lists with its while loop free to take any element *)
(* of the list of starts where the code takes the last: one action for a   *)
(* turn of the while loop with the whole walk from the start it took, one  *)
(* for the return.                                                         *)
(***************************************************************************)
OrderInit ==
    /\ CodecIdle
    /\ EvalIdle
    /\ AsmIdle
    /\ TableIdle
    /\ SessIdle
    /\ DisIdle
    /\ ListIdle
    /\ WalkIdle
    /\ SourceIdle
    /\ StackIdle
    /\ ophase = "pop"
    /\ \E n \in 0..MaxWalkWords :
          \E words \in [1..n -> ProgWords],
             last \in {<<>>} \cup {<<b>> : b \in LastBytes},
             past \in PastBytes :
             /\ last = <<>> => past = 0
             /\ ofile = File(words, last, past)
    /\ ost = [jpret_list |-> <<>>, label_list |-> <<>>, starts |-> jpret_list_add(<<>>, 0),
              retval |-> 0, walked |-> <<>>, decoded |-> {}, pushed |-> {0}]

\* A turn of the while loop that takes the start at index idx.
OrderTake ==
    /\ ophase = "pop"
    /\ ost.retval = 0
    /\ \E idx \in 0..(Len(ost.starts) - 1) :
          With(ost.starts[idx + 1], LAMBDA pc :
             With([ost EXCEPT !.starts = jpret_list_remove(@, idx)], LAMBDA popped :
                ost' = IF jpret_list_find(popped.jpret_list, pc) # -1 THEN popped
                       ELSE Walk(ofile,
                                 [popped EXCEPT !.jpret_list = jpret_list_add(@, pc),
                                                !.walked = Append(@, pc)],
                                 pc, FALSE)))
    /\ UNCHANGED <<ophase, ofile, codecVars, evalVars, asmVars, tableVars, sessVars, disVars, listVars, walkVars, sourceVars, stackVars>>

\* The while loop ends, or a walk has set retval: jpret_list_clear(&starts)
\* and return retval.
OrderReturn ==
    /\ ophase = "pop"
    /\ ost.retval # 0 \/ Len(ost.starts) = 0
    /\ ophase' = "done"
    /\ ost' = [ost EXCEPT !.starts = <<>>]
    /\ UNCHANGED <<ofile, codecVars, evalVars, asmVars, tableVars, sessVars, disVars, listVars, walkVars, sourceVars, stackVars>>

OrderNext == OrderTake \/ OrderReturn

SpecOrder == OrderInit /\ [][OrderNext]_vars

\* C40: in whatever order the starts are taken, the analysis returns what
\* chip8disasm_populate_lists returns and, when that is 0, leaves the same
\* list of jump and return points and the same list of labels.
C40_OrderOfStartsIsImmaterial ==
    ophase = "done" =>
        With(chip8disasm_populate_lists(ofile), LAMBDA code :
           /\ ost.retval = code.retval
           /\ code.retval = 0 =>
                 /\ ost.jpret_list = code.jpret_list
                 /\ ost.label_list = code.label_list)

\* Three walks were made, in another order than the code makes them, and
\* the analysis returned 0.
C40_Witness ==
    /\ ophase = "done"
    /\ ost.retval = 0
    /\ Len(ost.walked) >= 3
    /\ ost.walked # chip8disasm_populate_lists(ofile).walked

==============================================================================
